---- MODULE Spec2Model ----
(***************************************************************************)
(* obsidian2notion: the markdown-to-block converter (markdown_parser.py),  *)
(* the Notion adapter (notion_adapter.py) and the reconciliation engine    *)
(* (sync_service.py), as a state machine.                                  *)
(*                                                                         *)
(* A Python str is a sequence of one-character strings; a list is a        *)
(* sequence; a dict is a function on the set of its keys.                  *)
(***************************************************************************)
EXTENDS Integers, Sequences, FiniteSets, TLC

(***************************************************************************)
(* Strings                                                                 *)
(***************************************************************************)

\* the characters str.strip() removes and that \s matches
Whitespace == {" ", "\t", "\r", "\n"}

\* the characters \d matches
Digits == {"0", "1", "2", "3", "4", "5", "6", "7", "8", "9"}

Min(S) == CHOOSE x \in S : \A y \in S : x <= y

\* s[i:] of Python, i counted from 1
Drop(s, n) == SubSeq(s, n + 1, Len(s))

\* s.startswith(p)
StartsWith(s, p) == Len(s) >= Len(p) /\ SubSeq(s, 1, Len(p)) = p

\* whether p occurs in s at position i
OccursAt(s, p, i) == i >= 1 /\ i + Len(p) - 1 <= Len(s) /\ SubSeq(s, i, i + Len(p) - 1) = p

\* the first position >= from at which p occurs in s, 0 when there is none
IndexOf(s, p, from) ==
    LET hits == {i \in from..Len(s) : OccursAt(s, p, i)}
    IN  IF hits = {} THEN 0 ELSE Min(hits)

\* s.strip()
Strip(s) ==
    LET keep == {i \in 1..Len(s) : s[i] \notin Whitespace}
    IN  IF keep = {} THEN <<>>
        ELSE SubSeq(s, Min(keep), CHOOSE i \in keep : \A j \in keep : j <= i)

\* s.split(sep) for a one-character sep: always at least one part
RECURSIVE Split(_, _)
Split(s, sep) ==
    LET k == IndexOf(s, <<sep>>, 1)
    IN  IF k = 0 THEN <<s>>
        ELSE <<SubSeq(s, 1, k - 1)>> \o Split(Drop(s, k), sep)

\* s.split(): the maximal runs of non-whitespace
RECURSIVE SplitWs(_)
SplitWs(s) ==
    LET t == Strip(s)
        ws == {i \in 1..Len(t) : t[i] \in Whitespace}
    IN  IF t = <<>> THEN <<>>
        ELSE IF ws = {} THEN <<t>>
        ELSE <<SubSeq(t, 1, Min(ws) - 1)>> \o SplitWs(Drop(t, Min(ws)))

\* sep.join(parts)
RECURSIVE Join(_, _)
Join(parts, sep) ==
    IF parts = <<>> THEN <<>>
    ELSE IF Len(parts) = 1 THEN parts[1]
    ELSE parts[1] \o sep \o Join(Tail(parts), sep)

(***************************************************************************)
(* markdown_parser.py: rich text                                           *)
(***************************************************************************)

\* the ceiling Notion puts on one text content
MaxTextLen == 2000

\* the text as it is, whatever its length
Uncut(text) == text

\* text[:1997] + "..." when text is longer than 2000 characters
Truncate(text) ==
    IF Len(text) > MaxTextLen
    THEN SubSeq(text, 1, MaxTextLen - 3) \o <<".", ".", ".">>
    ELSE text

\* obsidian_image_pattern  !\[\[(.*?)\]\]  tried at position i: the position of
\* the closing ]] (0: no match). The lazy group stops at the first ]] .
ObsidianImageAt(s, i) ==
    IF OccursAt(s, <<"!", "[", "[">>, i) THEN IndexOf(s, <<"]", "]">>, i + 3) ELSE 0

\* obsidian_image_pattern.sub(r'[Image: \1]', text)
RECURSIVE SubObsidianImages(_)
SubObsidianImages(s) ==
    LET starts == {i \in 1..Len(s) : ObsidianImageAt(s, i) # 0}
    IN  IF starts = {} THEN s
        ELSE LET i == Min(starts)
                 j == ObsidianImageAt(s, i)
             IN  SubSeq(s, 1, i - 1)
                   \o <<"[", "I", "m", "a", "g", "e", ":", " ">>
                   \o SubSeq(s, i + 3, j - 1) \o <<"]">>
                   \o SubObsidianImages(Drop(s, j + 1))

\* wikilink_pattern  \[\[(.*?)(?:\|(.*?))?\]\]  tried at position i: the match
\* [close |-> position of the closing ]], bar |-> position of the | that starts
\* the alias (0: no alias group)], close = 0 when there is no match. The lazy
\* page group grows until either a | followed somewhere by ]] or a ]] follows.
WikilinkAt(s, i) ==
    IF ~OccursAt(s, <<"[", "[">>, i) THEN [close |-> 0, bar |-> 0]
    ELSE LET close == IndexOf(s, <<"]", "]">>, i + 2)
             bar   == IndexOf(s, <<"|">>, i + 2)
         IN  IF close = 0 THEN [close |-> 0, bar |-> 0]
             ELSE IF bar # 0 /\ bar < close THEN [close |-> close, bar |-> bar]
             ELSE [close |-> close, bar |-> 0]

\* replace_wikilink: alias if alias else page
replace_wikilink(s, i, m) ==
    LET page  == SubSeq(s, i + 2, (IF m.bar # 0 THEN m.bar ELSE m.close) - 1)
        alias == IF m.bar # 0 THEN SubSeq(s, m.bar + 1, m.close - 1) ELSE <<>>
    IN  IF alias # <<>> THEN alias ELSE page

\* wikilink_pattern.sub(replace_wikilink, text)
RECURSIVE SubWikilinks(_)
SubWikilinks(s) ==
    LET starts == {i \in 1..Len(s) : WikilinkAt(s, i).close # 0}
    IN  IF starts = {} THEN s
        ELSE LET i == Min(starts)
                 m == WikilinkAt(s, i)
             IN  SubSeq(s, 1, i - 1) \o replace_wikilink(s, i, m)
                   \o SubWikilinks(Drop(s, m.close + 1))

\* the links replaced before the embeds
LinksBeforeImages(text) == Truncate(SubObsidianImages(SubWikilinks(text)))

\* the content of the single text object _create_rich_text returns
_create_rich_text(text) == Truncate(SubWikilinks(SubObsidianImages(text)))

(***************************************************************************)
(* markdown_parser.py: blocks                                              *)
(*                                                                         *)
(* A Notion block is the record [type, content, checked, language]:        *)
(* content is the text content of its rich_text (the URL of an image       *)
(* block), checked is the to_do flag (FALSE elsewhere) and language the    *)
(* code language (empty elsewhere).                                        *)
(***************************************************************************)

Block(type, content, checked, language) ==
    [type |-> type, content |-> content, checked |-> checked, language |-> language]

_create_paragraph_block(text) == Block("paragraph", _create_rich_text(text), FALSE, <<>>)

_create_heading_block(text, level) ==
    Block(CASE level = 1 -> "heading_1" [] level = 2 -> "heading_2" [] OTHER -> "heading_3",
          _create_rich_text(text), FALSE, <<>>)

_create_bulleted_list_item(text) == Block("bulleted_list_item", _create_rich_text(text), FALSE, <<>>)

_create_numbered_list_item(text) == Block("numbered_list_item", _create_rich_text(text), FALSE, <<>>)

_create_todo_block(text, checked) == Block("to_do", _create_rich_text(text), checked, <<>>)

_create_quote_block(text) == Block("quote", _create_rich_text(text), FALSE, <<>>)

PlainText == <<"p", "l", "a", "i", "n", " ", "t", "e", "x", "t">>

\* _create_code_block: an empty language becomes "plain text", and the language
\* kept is the first whitespace-separated word of it
_create_code_block(code, language) ==
    LET lang == IF language = <<>> THEN PlainText ELSE language
    IN  Block("code", Truncate(code), FALSE, SplitWs(lang)[1])

\* md_image_pattern  !\[(.*?)\]\((.*?)\)  tried at position i: [mid |-> position
\* of the ]( , close |-> position of the closing )], close = 0 when no match
MdImageAt(s, i) ==
    IF ~OccursAt(s, <<"!", "[">>, i) THEN [mid |-> 0, close |-> 0]
    ELSE LET mid == IndexOf(s, <<"]", "(">>, i + 2)
             close == IF mid = 0 THEN 0 ELSE IndexOf(s, <<")">>, mid + 2)
         IN  IF close = 0 THEN [mid |-> 0, close |-> 0] ELSE [mid |-> mid, close |-> close]

\* _is_image_line: either pattern matches at the start of the stripped line
_is_image_line(line) ==
    \/ MdImageAt(Strip(line), 1).close # 0
    \/ ObsidianImageAt(Strip(line), 1) # 0

NoBlock == Block("none", <<>>, FALSE, <<>>)

\* _create_image_block: the first markdown image of the line, when its URL
\* starts with http; NoBlock is Python's None
_create_image_block(line) ==
    LET starts == {i \in 1..Len(line) : MdImageAt(line, i).close # 0}
    IN  IF starts = {} THEN NoBlock
        ELSE LET m   == MdImageAt(line, Min(starts))
                 url == SubSeq(line, m.mid + 2, m.close - 1)
             IN  IF StartsWith(url, <<"h", "t", "t", "p">>)
                 THEN Block("image", url, FALSE, <<>>)
                 ELSE NoBlock

\* the length of the match of  ^\d+\.\s  on s, 0 when it does not match
NumberedPrefixLen(s) ==
    LET nondigit == {i \in 1..Len(s) : s[i] \notin Digits}
        k == IF nondigit = {} THEN Len(s) ELSE Min(nondigit) - 1
    IN  IF k >= 1 /\ Len(s) >= k + 2 /\ s[k + 1] = "." /\ s[k + 2] \in Whitespace
        THEN k + 2 ELSE 0

\* the backquote character, which a TLA+ string cannot hold
Backquote == "BACKQUOTE"

\* the fence marker: three backquotes
Fence == <<Backquote, Backquote, Backquote>>

IsFenceLine(line) == StartsWith(Strip(line), Fence)

\* the block of one non-blank line that opens no code fence
LineBlock(line) ==
    LET s == Strip(line)
    IN  IF StartsWith(line, <<"#", " ">>) THEN _create_heading_block(Drop(line, 2), 1)
        ELSE IF StartsWith(line, <<"#", "#", " ">>) THEN _create_heading_block(Drop(line, 3), 2)
        ELSE IF StartsWith(line, <<"#", "#", "#", " ">>) THEN _create_heading_block(Drop(line, 4), 3)
        ELSE IF StartsWith(s, <<"-", " ">>) \/ StartsWith(s, <<"*", " ">>)
        THEN LET content == Drop(s, 2)
             IN  IF StartsWith(content, <<"[", " ", "]", " ">>)
                 THEN _create_todo_block(Drop(content, 4), FALSE)
                 ELSE IF StartsWith(content, <<"[", "x", "]", " ">>)
                 THEN _create_todo_block(Drop(content, 4), TRUE)
                 ELSE _create_bulleted_list_item(content)
        ELSE IF NumberedPrefixLen(s) # 0
        THEN _create_numbered_list_item(Drop(s, NumberedPrefixLen(s)))
        ELSE IF StartsWith(s, <<">", " ">>) THEN _create_quote_block(Drop(s, 2))
        ELSE IF _is_image_line(line)
        THEN IF _create_image_block(line) # NoBlock
             THEN _create_image_block(line)
             ELSE _create_paragraph_block(line)
        ELSE _create_paragraph_block(line)

\* a fence that ends where it starts
FenceEndsAtOnce(lines, i) == i

\* the index of the first fence line of lines at or after i, Len(lines) + 1
\* when there is none: where the inner while loop stops
FenceEnd(lines, i) ==
    LET closing == {j \in i..Len(lines) : IsFenceLine(lines[j])}
    IN  IF closing = {} THEN Len(lines) + 1 ELSE Min(closing)

\* the while loop of _parse_body_to_blocks from index i on
RECURSIVE ParseLines(_, _)
ParseLines(lines, i) ==
    IF i > Len(lines) THEN <<>>
    ELSE IF Strip(lines[i]) = <<>> THEN ParseLines(lines, i + 1)
    ELSE IF IsFenceLine(lines[i])
    THEN LET e == FenceEnd(lines, i + 1)
             code == Join(SubSeq(lines, i + 1, e - 1), <<"\n">>)
             language == Strip(Drop(Strip(lines[i]), 3))
         IN  <<_create_code_block(code, language)>>
               \o ParseLines(lines, IF e <= Len(lines) THEN e + 1 ELSE e)
    ELSE <<LineBlock(lines[i])>> \o ParseLines(lines, i + 1)

\* _parse_body_to_blocks
_parse_body_to_blocks(body) == ParseLines(Split(body, "\n"), 1)

(***************************************************************************)
(* markdown_parser.py: frontmatter                                         *)
(*                                                                         *)
(* A YAML value is the record [kind, text, items]: kind is one of "null",  *)
(* "str", "int", "bool", "date", "list", "map" and "error" (the load       *)
(* raised YAMLError); text is the scalar as str() prints it; items holds   *)
(* the elements of a list and the [key, value] entries of a mapping.       *)
(***************************************************************************)

Val(kind, text, items) == [kind |-> kind, text |-> text, items |-> items]

YamlNull == Val("null", <<"N", "o", "n", "e">>, <<>>)

YamlError == Val("error", <<>>, <<>>)

EmptyMap == Val("map", <<>>, <<>>)

AllDigits(s) == s # <<>> /\ \A i \in 1..Len(s) : s[i] \in Digits

\* the implicit tag PyYAML resolves an unquoted scalar to: null, bool, int,
\* date (dddd-dd-dd) or str
ResolveScalar(s) ==
    IF s = <<>> \/ s = <<"~">> \/ s = <<"n", "u", "l", "l">> THEN YamlNull
    ELSE IF s = <<"t", "r", "u", "e">> THEN Val("bool", <<"T", "r", "u", "e">>, <<>>)
    ELSE IF s = <<"f", "a", "l", "s", "e">> THEN Val("bool", <<"F", "a", "l", "s", "e">>, <<>>)
    ELSE IF AllDigits(s) /\ (Len(s) = 1 \/ s[1] # "0") THEN Val("int", s, <<>>)
    ELSE IF Len(s) = 10 /\ s[5] = "-" /\ s[8] = "-"
            /\ AllDigits(SubSeq(s, 1, 4) \o SubSeq(s, 6, 7) \o SubSeq(s, 9, 10))
    THEN Val("date", s, <<>>)
    ELSE Val("str", s, <<>>)

\* the elements of a flow sequence body  a, b, c
RECURSIVE FlowItems(_)
FlowItems(parts) ==
    IF parts = <<>> THEN <<>>
    ELSE <<ResolveScalar(Strip(parts[1]))>> \o FlowItems(Tail(parts))

\* a node written on one line: a flow sequence [a, b] or a plain scalar
ParseNode(s) ==
    IF s # <<>> /\ s[1] = "["
    THEN IF s[Len(s)] # "]" THEN YamlError
         ELSE IF Strip(SubSeq(s, 2, Len(s) - 1)) = <<>> THEN Val("list", <<>>, <<>>)
         ELSE Val("list", <<>>, FlowItems(Split(SubSeq(s, 2, Len(s) - 1), ",")))
    ELSE IF \E i \in 1..Len(s) : s[i] \in {"[", "]", "{", "}"} THEN YamlError
    ELSE ResolveScalar(s)

\* the position of the ": " or final ":" that ends the key of a mapping line
KeyEnd(line) ==
    LET ends == {i \in 1..Len(line) :
                   line[i] = ":" /\ (i = Len(line) \/ line[i + 1] \in Whitespace)}
    IN  IF ends = {} THEN 0 ELSE Min(ends)

IsMapLine(line) == KeyEnd(line) > 1 /\ line[1] \notin Whitespace \cup {"-", "["}

IsSeqLine(line) == line = <<"-">> \/ StartsWith(line, <<"-", " ">>)

RECURSIVE MapEntries(_)
MapEntries(lines) ==
    IF lines = <<>> THEN <<>>
    ELSE LET k == KeyEnd(lines[1])
         IN  <<[key |-> SubSeq(lines[1], 1, k - 1),
                value |-> ParseNode(Strip(Drop(lines[1], k)))]>>
               \o MapEntries(Tail(lines))

RECURSIVE SeqEntries(_)
SeqEntries(lines) ==
    IF lines = <<>> THEN <<>>
    ELSE <<ParseNode(Strip(Drop(lines[1], 1)))>> \o SeqEntries(Tail(lines))

RECURSIVE NonBlank(_)
NonBlank(lines) ==
    IF lines = <<>> THEN <<>>
    ELSE IF Strip(lines[1]) = <<>> THEN NonBlank(Tail(lines))
    ELSE <<lines[1]>> \o NonBlank(Tail(lines))

\* yaml.safe_load on the documents the model feeds it: nothing (None), a block
\* mapping of one-line entries, a block sequence of one-line entries, or one
\* line holding a flow sequence or a plain scalar; anything else, and any
\* entry that does not parse, raises YAMLError
YamlSafeLoad(text) ==
    LET lines == NonBlank(Split(text, "\n"))
        n == Len(lines)
    IN  IF n = 0 THEN YamlNull
        ELSE IF \A i \in 1..n : IsMapLine(lines[i])
        THEN IF \E i \in 1..n : MapEntries(lines)[i].value.kind = "error"
             THEN YamlError ELSE Val("map", <<>>, MapEntries(lines))
        ELSE IF \A i \in 1..n : IsSeqLine(lines[i])
        THEN IF \E i \in 1..n : SeqEntries(lines)[i].kind = "error"
             THEN YamlError ELSE Val("list", <<>>, SeqEntries(lines))
        ELSE IF n = 1 /\ lines[1][1] \notin Whitespace /\ KeyEnd(lines[1]) = 0
        THEN ParseNode(Strip(lines[1]))
        ELSE YamlError

Dashes == <<"-", "-", "-">>

AllWhitespace(s, from, to) == \A i \in from..to : s[i] \in Whitespace

\* the positions at which  ---\s*\n  can end when it starts at position i
DelimiterEnds(s, i) ==
    {e \in (i + 3)..Len(s) :
        OccursAt(s, Dashes, i) /\ s[e] = "\n" /\ AllWhitespace(s, i + 3, e - 1)}

Max(S) == CHOOSE x \in S : \A y \in S : y <= x

\* frontmatter_pattern  ^---\s*\n(.*?)\n---\s*\n  (DOTALL) matched at the start
\* of content: [open |-> end of the opening delimiter, close |-> position of
\* the newline before the closing ---, end |-> end of the match], end = 0 when
\* there is no match. Each \s* is greedy and the group lazy: the longest opening
\* that leaves a match, then the shortest group, then the longest closing.
FrontmatterMatch(content) ==
    LET closes(o) == {c \in (o + 1)..Len(content) :
                        content[c] = "\n" /\ DelimiterEnds(content, c + 1) # {}}
        opens == {o \in DelimiterEnds(content, 1) : closes(o) # {}}
    IN  IF opens = {} THEN [open |-> 0, close |-> 0, end |-> 0]
        ELSE LET o == Max(opens)
                 c == Min(closes(o))
             IN  [open |-> o, close |-> c, end |-> Max(DelimiterEnds(content, c + 1))]

\* _extract_frontmatter: [frontmatter, body]
_extract_frontmatter(content) ==
    LET m == FrontmatterMatch(content)
        loaded == YamlSafeLoad(SubSeq(content, m.open + 1, m.close - 1))
    IN  IF m.end = 0 THEN [frontmatter |-> EmptyMap, body |-> content]
        ELSE IF loaded.kind = "error" THEN [frontmatter |-> EmptyMap, body |-> content]
        ELSE [frontmatter |-> IF loaded.kind = "null" THEN EmptyMap ELSE loaded,
              body |-> Drop(content, m.end)]

(***************************************************************************)
(* markdown_parser.py: properties                                          *)
(***************************************************************************)

\* frontmatter.get(key): the value of the last entry with that key, None
\* when there is none
Get(frontmatter, key) ==
    LET at == {i \in 1..Len(frontmatter.items) : frontmatter.items[i].key = key}
    IN  IF at = {} THEN YamlNull ELSE frontmatter.items[Max(at)].value

\* the truth value Python gives a value
Truthy(v) ==
    CASE v.kind = "null" -> FALSE
      [] v.kind = "str"  -> v.text # <<>>
      [] v.kind = "int"  -> v.text # <<"0">>
      [] v.kind = "bool" -> v.text = <<"T", "r", "u", "e">>
      [] v.kind = "list" -> v.items # <<>>
      [] OTHER           -> TRUE

\* a or b
Or(a, b) == IF Truthy(a) THEN a ELSE b

\* repr() of a list element: a str in quotes, anything else as str() prints it
Repr(v) == IF v.kind = "str" THEN <<"'">> \o v.text \o <<"'">> ELSE v.text

RECURSIVE ReprItems(_)
ReprItems(items) ==
    IF items = <<>> THEN <<>>
    ELSE IF Len(items) = 1 THEN Repr(items[1])
    ELSE Repr(items[1]) \o <<",", " ">> \o ReprItems(Tail(items))

\* str(v)
Str(v) == IF v.kind = "list" THEN <<"[">> \o ReprItems(v.items) \o <<"]">> ELSE v.text

\* the parts as they are
NotStripped(parts) == parts

RECURSIVE StripEach(_)
StripEach(parts) ==
    IF parts = <<>> THEN <<>> ELSE <<Strip(parts[1])>> \o StripEach(Tail(parts))

RECURSIVE StrEach(_)
StrEach(items) ==
    IF items = <<>> THEN <<>> ELSE <<Str(items[1])>> \o StrEach(Tail(items))

\* the labels of the Tags property; hasTags is FALSE when no Tags entry is set
TagsOf(frontmatter) ==
    LET tags == Or(Get(frontmatter, <<"t", "a", "g", "s">>), Get(frontmatter, <<"t", "a", "g">>))
    IN  IF ~Truthy(tags) THEN [hasTags |-> FALSE, labels |-> <<>>]
        ELSE IF tags.kind = "str"
        THEN [hasTags |-> TRUE,
              labels |-> IF \E i \in 1..Len(tags.text) : tags.text[i] = ","
                         THEN StripEach(Split(tags.text, ","))
                         ELSE SplitWs(tags.text)]
        ELSE IF tags.kind = "list" THEN [hasTags |-> TRUE, labels |-> StrEach(tags.items)]
        ELSE [hasTags |-> FALSE, labels |-> <<>>]

\* datetime.fromtimestamp(mtime).isoformat(): one text per timestamp
IsoFormat(mtime) == <<"T", ToString(mtime)>>

\* the Date property
DateOf(frontmatter, mtime) ==
    LET date_val == Or(Get(frontmatter, <<"d", "a", "t", "e">>),
                       Get(frontmatter, <<"c", "r", "e", "a", "t", "e", "d">>))
    IN  IF ~Truthy(date_val) THEN IsoFormat(mtime) ELSE Str(date_val)

\* _build_properties: [raised, Name, hasTags, Tags, Date]. A frontmatter that is
\* no mapping has no get(): AttributeError (raised)
_build_properties(title, frontmatter, mtime) ==
    IF frontmatter.kind # "map"
    THEN [raised |-> TRUE, Name |-> title, hasTags |-> FALSE, Tags |-> <<>>, Date |-> <<>>]
    ELSE [raised |-> FALSE, Name |-> title,
          hasTags |-> TagsOf(frontmatter).hasTags, Tags |-> TagsOf(frontmatter).labels,
          Date |-> DateOf(frontmatter, mtime)]

NoProperties == [raised |-> FALSE, Name |-> <<>>, hasTags |-> FALSE, Tags |-> <<>>, Date |-> <<>>]

(***************************************************************************)
(* Files                                                                   *)
(*                                                                         *)
(* A path below the vault root is [dir, stem]: the directory and the file  *)
(* name without its .md suffix. A file is [exists, readable, content,      *)
(* mtime]; content is the text of the file.                                *)
(***************************************************************************)

\* the texts a file may hold: a heading; tags and three blocks; a frontmatter
\* that is a list
TextHeading == <<"#", " ", "A">>

TextTagged ==
    <<"-", "-", "-", "\n", "t", "a", "g", "s", ":", " ", "x", " ", "y", "\n", "-", "-", "-", "\n",
      "-", " ", "b", "\n", "c", "\n", ">", " ", "q">>

TextListFrontmatter == <<"-", "-", "-", "\n", "-", " ", "x", "\n", "-", "-", "-", "\n", "z">>

Texts == {TextHeading, TextTagged, TextListFrontmatter}

\* the frontmatter, body and blocks of the texts of the vault, worked out once
WithBlocks(extracted) ==
    [frontmatter |-> extracted.frontmatter, blocks |-> _parse_body_to_blocks(extracted.body)]

ParsedTexts == [t \in Texts |-> WithBlocks(_extract_frontmatter(t))]

\* the frontmatter of a text and the blocks of its body
Parsed(content) ==
    IF content \in Texts THEN ParsedTexts[content] ELSE WithBlocks(_extract_frontmatter(content))

\* file_path.stem
Stem(path) == path.stem

\* parse_file: [properties, blocks, raised]. A file that cannot be read gives
\* ({}, []); raised tells that _build_properties raised
parse_file(path, file) ==
    LET Built(parsed, properties) ==
            IF properties.raised
            THEN [properties |-> NoProperties, blocks |-> <<>>, raised |-> TRUE]
            ELSE [properties |-> properties, blocks |-> parsed.blocks, raised |-> FALSE]
        Read(parsed) ==
            Built(parsed, _build_properties(Stem(path), parsed.frontmatter, file.mtime))
    IN  IF ~file.readable
        THEN [properties |-> NoProperties, blocks |-> <<>>, raised |-> FALSE]
        ELSE Read(Parsed(file.content))

(***************************************************************************)
(* notion_adapter.py and the Notion workspace behind it                    *)
(*                                                                         *)
(* The database is the sequence of its pages, a page's id its index; a     *)
(* page is [properties, children] and a child [id, block]. Every adapter   *)
(* operation takes the log of the remote calls issued so far for the       *)
(* document and the number fault of the call that fails (0: none does),    *)
(* and returns the log extended by the calls it issued.                    *)
(***************************************************************************)

\* one remote call: the client method, the page or block it addresses, the
\* title it filters on and the blocks it carries
Call(op, page, block_id, title, blocks) ==
    [op |-> op, page |-> page, block_id |-> block_id, title |-> title, blocks |-> blocks]

\* whether the next call issued after log is the one that fails
Fails(log, fault) == Len(log) + 1 = fault

\* the number of children one blocks.children.list response holds
ListPageSize == 2

\* the batch_size of _replace_page_content
BatchSize == 100

\* the children the remote store gives the blocks appended after children
NewChildren(children, blocks) ==
    LET base == IF children = <<>> THEN 0 ELSE children[Len(children)].id
    IN  [k \in 1..Len(blocks) |-> [id |-> base + k, block |-> blocks[k]]]

BlocksOf(children) == [k \in 1..Len(children) |-> children[k].block]

\* blocks.children.list(block_id, start_cursor): the children from the cursor
\* on, at most ListPageSize of them; cursor 0 is Python's None
ListChildren(children, cursor) ==
    LET start == IF cursor = 0 THEN 1
                 ELSE Min({k \in 1..Len(children) : children[k].id = cursor})
        stop  == IF start + ListPageSize - 1 < Len(children)
                 THEN start + ListPageSize - 1 ELSE Len(children)
    IN  [results |-> SubSeq(children, start, stop),
         has_more |-> stop < Len(children),
         next_cursor |-> IF stop < Len(children) THEN children[stop + 1].id ELSE 0]

\* children without the child whose id is block_id
RemoveChild(children, block_id) ==
    SelectSeq(children, LAMBDA c : c.id # block_id)

\* the for loop of _replace_page_content over one list response
RECURSIVE DeleteBlocks(_, _, _, _, _)
DeleteBlocks(children, blocks, page_id, log, fault) ==
    IF blocks = <<>> THEN [ok |-> TRUE, children |-> children, log |-> log]
    ELSE LET call == Call("blocks.delete", page_id, blocks[1].id, <<>>, <<>>)
         IN  IF Fails(log, fault)
             THEN [ok |-> FALSE, children |-> children, log |-> Append(log, call)]
             ELSE DeleteBlocks(RemoveChild(children, blocks[1].id), Tail(blocks),
                               page_id, Append(log, call), fault)

\* the first response of the listing taken for the whole of it
ClearFirstPage(children, start_cursor, page_id, log, fault) ==
    LET call     == Call("blocks.children.list", page_id, start_cursor, <<>>, <<>>)
        response == ListChildren(children, start_cursor)
    IN  IF Fails(log, fault)
        THEN [ok |-> FALSE, children |-> children, log |-> Append(log, call)]
        ELSE DeleteBlocks(children, response.results, page_id, Append(log, call), fault)

\* one pass of the while has_more loop of _replace_page_content, from the
\* loop state [ok, children, log, cursor, has_more]: a list call, then the
\* for loop over its results. A loop that has ended (has_more is FALSE, or
\* a call raised) makes no pass
ClearPass(loop, page_id, fault) ==
    LET call     == Call("blocks.children.list", page_id, loop.cursor, <<>>, <<>>)
        response == ListChildren(loop.children, loop.cursor)
        Listed(deleted) ==
            [ok |-> deleted.ok, children |-> deleted.children, log |-> deleted.log,
             cursor |-> response.next_cursor, has_more |-> deleted.ok /\ response.has_more]
    IN  IF ~loop.ok \/ ~loop.has_more THEN loop
        ELSE IF Fails(loop.log, fault)
        THEN [loop EXCEPT !.ok = FALSE, !.log = Append(loop.log, call), !.has_more = FALSE]
        ELSE Listed(DeleteBlocks(loop.children, response.results, page_id,
                                 Append(loop.log, call), fault))

\* n passes of the loop, one half of them after the other
RECURSIVE ClearPasses(_, _, _, _)
ClearPasses(loop, n, page_id, fault) ==
    LET half == ClearPasses(loop, n \div 2, page_id, fault)
    IN  IF n = 0 THEN loop
        ELSE IF n = 1 THEN ClearPass(loop, page_id, fault)
        ELSE IF ~half.ok \/ ~half.has_more THEN half
        ELSE ClearPasses(half, n - (n \div 2), page_id, fault)

\* the while has_more loop of _replace_page_content: has_more starts TRUE,
\* and the loop ends within as many passes as there are children, and one
ClearChildren(children, start_cursor, page_id, log, fault) ==
    LET Ended(loop) == [ok |-> loop.ok, children |-> loop.children, log |-> loop.log]
    IN  Ended(ClearPasses([ok |-> TRUE, children |-> children, log |-> log,
                           cursor |-> start_cursor, has_more |-> TRUE],
                          Len(children) + 1, page_id, fault))

\* the new blocks appended by one call, whatever their number
AppendAtOnce(children, new_blocks, i, page_id, log, fault) ==
    LET call == Call("blocks.children.append", page_id, 0, <<>>, new_blocks)
    IN  IF Fails(log, fault)
        THEN [ok |-> FALSE, children |-> children, log |-> Append(log, call)]
        ELSE [ok |-> TRUE, children |-> children \o NewChildren(children, new_blocks),
              log |-> Append(log, call)]

\* the for i in range(0, len(new_blocks), batch_size) loop, from offset i on
RECURSIVE AppendBatches(_, _, _, _, _, _)
AppendBatches(children, new_blocks, i, page_id, log, fault) ==
    IF i >= Len(new_blocks) THEN [ok |-> TRUE, children |-> children, log |-> log]
    ELSE LET stop  == IF i + BatchSize < Len(new_blocks) THEN i + BatchSize ELSE Len(new_blocks)
             batch == SubSeq(new_blocks, i + 1, stop)
             call  == Call("blocks.children.append", page_id, 0, <<>>, batch)
         IN  IF Fails(log, fault)
             THEN [ok |-> FALSE, children |-> children, log |-> Append(log, call)]
             ELSE AppendBatches(children \o NewChildren(children, batch), new_blocks,
                                i + BatchSize, page_id, Append(log, call), fault)

\* the error of a failed call logged and not raised again
ReplaceSwallowsErrors(children, page_id, new_blocks, log, fault) ==
    LET Appended(cleared) ==
            IF ~cleared.ok THEN cleared
            ELSE AppendBatches(cleared.children, new_blocks, 0, page_id, cleared.log, fault)
        Swallowed(replaced) == [replaced EXCEPT !.ok = TRUE]
    IN  Swallowed(Appended(ClearChildren(children, 0, page_id, log, fault)))

\* the new blocks appended before the children are removed
AppendBeforeClear(children, page_id, new_blocks, log, fault) ==
    LET Cleared(appended) ==
            IF ~appended.ok THEN appended
            ELSE ClearChildren(appended.children, 0, page_id, appended.log, fault)
    IN  Cleared(AppendBatches(children, new_blocks, 0, page_id, log, fault))

\* _replace_page_content: [ok, children, log]; ok is FALSE when it raised
_replace_page_content(children, page_id, new_blocks, log, fault) ==
    LET cleared == ClearChildren(children, 0, page_id, log, fault)
    IN  IF ~cleared.ok THEN cleared
        ELSE AppendBatches(cleared.children, new_blocks, 0, page_id, cleared.log, fault)

\* update_page: [ok, pages, log]
update_page(pages, page_id, properties, children, log, fault) ==
    LET call     == Call("pages.update", page_id, 0, properties.Name, <<>>)
        replaced == _replace_page_content(pages[page_id].children, page_id, children,
                                       Append(log, call), fault)
    IN  IF Fails(log, fault)
        THEN [ok |-> FALSE, pages |-> pages, log |-> Append(log, call)]
        ELSE [ok |-> replaced.ok,
              pages |-> [pages EXCEPT ![page_id] =
                           [properties |-> properties, children |-> replaced.children]],
              log |-> replaced.log]

\* create_page: [ok, id, pages, log]; ok is FALSE when it returned None
create_page(pages, properties, children, log, fault) ==
    LET call == Call("pages.create", 0, 0, properties.Name, children)
        page == [properties |-> properties, children |-> NewChildren(<<>>, children)]
    IN  IF Fails(log, fault)
        THEN [ok |-> FALSE, id |-> 0, pages |-> pages, log |-> Append(log, call)]
        ELSE [ok |-> TRUE, id |-> Len(pages) + 1, pages |-> Append(pages, page),
              log |-> Append(log, call)]

\* a lookup that finds no page
FindsNothing(pages, title, log, fault) ==
    [ok |-> ~Fails(log, fault), id |-> 0,
     log |-> Append(log, Call("databases.query", 0, 0, title, <<>>))]

\* find_page_by_title: [ok, id, log]; id 0 is None, ok is FALSE when the
\* query raised. The pages whose title equals title fit one query response.
find_page_by_title(pages, title, log, fault) ==
    LET call    == Call("databases.query", 0, 0, title, <<>>)
        results == {k \in 1..Len(pages) : pages[k].properties.Name = title}
    IN  IF Fails(log, fault) THEN [ok |-> FALSE, id |-> 0, log |-> Append(log, call)]
        ELSE [ok |-> TRUE, id |-> IF results = {} THEN 0 ELSE Min(results),
              log |-> Append(log, call)]

(***************************************************************************)
(* sync_service.py                                                         *)
(***************************************************************************)

\* hashlib.md5(bytes).hexdigest(), taken to be free of collisions
Md5(content) == <<"md5">> \o content

\* the "" that _calculate_file_hash returns for a file it cannot read
EmptyHash == <<>>

\* the None that file_state.get("hash") returns without a record
NoHash == <<"None">>

_calculate_file_hash(file) == IF file.readable THEN Md5(file.content) ELSE EmptyHash

HasRecord(state, path) == path \in DOMAIN state

\* the state replaced by the one record
SetOnlyRecord(state, path, record) == [q \in {path} |-> record]

\* self.state[relative_path] = record
SetRecord(state, path, record) ==
    [q \in DOMAIN state \cup {path} |-> IF q = path THEN record ELSE state[q]]

\* what json.load returns from a state file that holds JSON other than an
\* object of records (a list, a number, null): a value without a get method,
\* told from every state by the one key it has, which no file can have
NotADict ==
    [q \in {[dir |-> "", stem |-> <<"[", "]">>]} |->
        [mtime |-> 0, hash |-> NoHash, page_id |-> 0]]

\* a record without the fingerprint
RecordWithoutHash(file, current_hash, page_id) ==
    [mtime |-> file.mtime, hash |-> NoHash, page_id |-> page_id]

\* a record without the page
RecordWithoutPage(file, current_hash, page_id) ==
    [mtime |-> file.mtime, hash |-> current_hash, page_id |-> 0]

\* the record _sync_file writes after a successful create or update
NewRecord(file, current_hash, page_id) ==
    [mtime |-> file.mtime, hash |-> current_hash, page_id |-> page_id]

\* a title lookup made for every document
LookupAlways(state, pages, path, properties, fault) ==
    find_page_by_title(pages, properties.Name, <<>>, fault)

\* the title lookup of _sync_file, made only without a known page_id and with
\* a non-empty title: [ok, id, log]
ResolvePage(state, pages, path, properties, fault) ==
    IF HasRecord(state, path) /\ state[path].page_id # 0
    THEN [ok |-> TRUE, id |-> state[path].page_id, log |-> <<>>]
    ELSE IF properties.Name = <<>> THEN [ok |-> TRUE, id |-> 0, log |-> <<>>]
    ELSE find_page_by_title(pages, properties.Name, <<>>, fault)

\* the create or update of _sync_file: [ok, id, pages, log]
Push(pages, page_id, parsed, log, fault) ==
    IF page_id # 0
    THEN LET u == update_page(pages, page_id, parsed.properties, parsed.blocks, log, fault)
         IN  [ok |-> u.ok, id |-> page_id, pages |-> u.pages, log |-> u.log]
    ELSE create_page(pages, parsed.properties, parsed.blocks, log, fault)

\* the record written whether or not the remote operation succeeded
CommitAlways(state, path, file, current_hash, pushed) ==
    SetRecord(state, path, NewRecord(file, current_hash, pushed.id))

\* what _sync_file does to the state when the remote operation ended: the
\* record is written only on success
Commit(state, path, file, current_hash, pushed) ==
    IF pushed.ok /\ pushed.id # 0
    THEN SetRecord(state, path, NewRecord(file, current_hash, pushed.id))
    ELSE state

\* the comparison of the fingerprints left out
HashCheckDropped(state, path, current_hash) == FALSE

\* whether _sync_file returns before parsing the file
Unchanged(state, path, current_hash) ==
    (IF HasRecord(state, path) THEN state[path].hash ELSE NoHash) = current_hash

\* the outcome of a remote operation that ended
PushOutcome(page_id, pushed) ==
    IF ~pushed.ok THEN "failed" ELSE IF page_id # 0 THEN "updated" ELSE "created"

\* no except clause around the body of _sync_file
PropagatesAll(outcome) == outcome \in {"failed", "raised"}

\* whether an exception raised under _sync_file leaves it: it catches Exception
Propagates(outcome) == FALSE

\* _sync_file on one discovered file: [state, pages, log, outcome, page_id,
\* blocks]; outcome is skipped, unreadable (no properties), raised (the parser
\* raised, or self.state.get did for want of such a method), failed (a remote
\* call failed), created or updated; page_id is the
\* page created or updated and blocks the blocks sent to it
_sync_file(state, pages, path, file, fault) ==
    LET current_hash == _calculate_file_hash(file)
        Result(st, pg, log, outcome, id, blocks) ==
            [state |-> st, pages |-> pg, log |-> log, outcome |-> outcome, page_id |-> id,
             blocks |-> blocks]
        Pushed(parsed, resolved, pushed) ==
            Result(Commit(state, path, file, current_hash, pushed), pushed.pages, pushed.log,
                   PushOutcome(resolved.id, pushed), pushed.id,
                   IF pushed.ok THEN parsed.blocks ELSE <<>>)
        Resolved(parsed, resolved) ==
            IF ~resolved.ok THEN Result(state, pages, resolved.log, "failed", 0, <<>>)
            ELSE Pushed(parsed, resolved, Push(pages, resolved.id, parsed, resolved.log, fault))
        Read(parsed) ==
            IF parsed.raised THEN Result(state, pages, <<>>, "raised", 0, <<>>)
            ELSE IF parsed.properties = NoProperties
            THEN Result(state, pages, <<>>, "unreadable", 0, <<>>)
            ELSE Resolved(parsed, ResolvePage(state, pages, path, parsed.properties, fault))
    IN  IF state = NotADict THEN Result(state, pages, <<>>, "raised", 0, <<>>)
        ELSE IF Unchanged(state, path, current_hash)
        THEN Result(state, pages, <<>>, "skipped", 0, <<>>)
        ELSE Read(parse_file(path, file))

\* json.dump of the state into the state file, and what is left of the file
\* when the save fails after open() truncated it
Saved(state) == [kind |-> "ok", data |-> state]

Corrupt == [kind |-> "corrupt", data |-> <<>>]

Missing == [kind |-> "missing", data |-> <<>>]

\* _load_state: {} for a missing file and for one json.load cannot read,
\* and whatever json.load returns from the others
_load_state(file) == IF file.kind = "ok" THEN file.data ELSE <<>>

(***************************************************************************)
(* The vault, the state file, the workspace and one scheduled job after    *)
(* the other (main.py: job)                                                *)
(***************************************************************************)

VARIABLES
    files,      \* the vault: path -> file
    stateFile,  \* sync_state.json
    state,      \* self.state of the running SyncService (empty between jobs)
    pages,      \* the pages of the Notion database
    phase,      \* "idle" between jobs, "syncing" inside the loop of sync()
    todo,       \* the files rglob has still to yield in this job
    clock,      \* the time of day
    last,       \* what the latest _sync_file call of the running job did
    cycle       \* what the current (or latest) job did so far

vars == <<files, stateFile, state, pages, phase, todo, clock, last, cycle>>

\* the files of the vault: two notes of the same name in two directories
Paths ==
    {[dir |-> "a", stem |-> <<"n", "o", "t", "e">>],
     [dir |-> "b", stem |-> <<"n", "o", "t", "e">>]}

\* the largest number of remote calls one _sync_file issues on these texts
MaxFault == 8

NoFile == [exists |-> FALSE, readable |-> FALSE, content |-> <<>>, mtime |-> 0]

NoRecord == [mtime |-> 0, hash |-> NoHash, page_id |-> 0]

RecordOf(st, path) == IF HasRecord(st, path) THEN st[path] ELSE NoRecord

\* the pages of the database whose title is title
Titled(pgs, title) == {k \in 1..Len(pgs) : pgs[k].properties.Name = title}

\* the place in the log of the remote call that failed, 0 when none did
Failed(log, fault) == IF fault \in 1..Len(log) THEN fault ELSE 0

\* path, outcome, log, page_id, blocks: the file and what _sync_file returned;
\* failed: the place in the log of the call that failed; cleared: the call
\* before on this file left the children of the page removed and none
\* appended; before: the record of the file before the call; titled: the
\* pages that had the title of the file before the call
NoSync ==
    [path |-> [dir |-> "", stem |-> <<>>], outcome |-> "none", log |-> <<>>, page_id |-> 0,
     blocks |-> <<>>, failed |-> 0, cleared |-> FALSE, before |-> NoRecord, titled |-> {}]

\* Python's None as a returned value
None == [none |-> TRUE]

\* what sync() returns: it ends with no return statement, so None whatever
\* the outcomes of the documents
sync_returns(outcomes) == None

\* ran: a job ran; called: the job issued a remote call; failed: the files
\* for which a remote call of the job failed; owed: the files whose latest
\* _sync_file call failed on a remote call and that did not change since;
\* cleared: those of them where the call that failed was the append that
\* follows the removal of the children;
\* unread: the job could not read some file; discovered, processed:
\* the files rglob yielded and those _sync_file was called on; complete: the
\* job ended with every discovered file processed; saved: _save_state ran;
\* kept: the state file still holds the state the job ended with; quiet: no
\* file changed since the job ended; repeat: the job started after another job
\* with no file changed in between; clean: moreover no remote call and no
\* read of that job failed and the state it ended with is the state this job
\* loaded; outcomes: the outcome of _sync_file for every file processed in
\* the running job; returned: what sync() returned to job() when it ended
NoCycle ==
    [ran |-> FALSE, called |-> FALSE, failed |-> {}, owed |-> {}, cleared |-> {},
     unread |-> FALSE,
     discovered |-> {}, processed |-> {}, complete |-> FALSE, saved |-> FALSE, kept |-> FALSE,
     quiet |-> FALSE, repeat |-> FALSE, clean |-> FALSE,
     outcomes |-> <<>>, returned |-> None]

\* the most pages the database is let grow to
MaxPages == 3

Init ==
    /\ files = [p \in Paths |-> NoFile]
    /\ stateFile = Missing
    /\ state = <<>>
    /\ pages = <<>>
    /\ phase = "idle"
    /\ todo = {}
    /\ clock = 0
    /\ last = NoSync
    /\ cycle = NoCycle

\* job(): SyncService() loads the state, sync() starts to walk the vault
StartCycle ==
    /\ phase = "idle"
    /\ phase' = "syncing"
    /\ state' = _load_state(stateFile)
    /\ todo' = {p \in Paths : files[p].exists}
    /\ cycle' = [NoCycle EXCEPT !.ran = TRUE,
                                !.discovered = {p \in Paths : files[p].exists},
                                !.owed = cycle.owed,
                                !.cleared = cycle.cleared,
                                !.repeat = cycle.quiet,
                                !.clean = /\ cycle.quiet /\ cycle.kept
                                          /\ cycle.failed = {} /\ ~cycle.unread]
    /\ last' = NoSync
    /\ UNCHANGED <<files, stateFile, pages, clock>>

\* what the job leaves behind when it ends: the service and its state are gone
Ended(c, saved, kept) ==
    [NoCycle EXCEPT !.ran = TRUE, !.failed = c.failed, !.owed = c.owed,
                    !.cleared = c.cleared, !.unread = c.unread,
                    !.complete = c.processed = c.discovered,
                    !.saved = saved, !.kept = kept, !.quiet = TRUE,
                    !.returned = sync_returns(c.outcomes)]

\* one iteration of the loop of sync(): _sync_file on the next file, the
\* fault-th remote call it issues failing; readable tells whether the file
\* can be read this time. An exception that leaves _sync_file leaves sync()
\* too and ends the job, nothing saved
SyncFile(p, fault, readable) ==
    /\ phase = "syncing"
    /\ p \in todo
    /\ LET Returned(r) ==
               LET c == [cycle EXCEPT !.called = @ \/ r.log # <<>>,
                                      !.failed = IF Failed(r.log, fault) # 0 THEN @ \cup {p}
                                                 ELSE @,
                                      !.owed = IF Failed(r.log, fault) # 0 THEN @ \cup {p}
                                               ELSE IF r.outcome \in {"created", "updated"}
                                               THEN @ \ {p} ELSE @,
                                      !.cleared = IF Failed(r.log, fault) = 0 THEN @ \ {p}
                                                  ELSE IF r.log[fault].op =
                                                          "blocks.children.append"
                                                  THEN @ \cup {p} ELSE @ \ {p},
                                      !.unread = @ \/ r.outcome = "unreadable",
                                      !.processed = @ \cup {p},
                                      !.outcomes = (p :> r.outcome) @@ @]
               IN  /\ Len(r.pages) <= MaxPages
                   /\ pages' = r.pages
                   /\ IF Propagates(r.outcome)
                      THEN /\ phase' = "idle"
                           /\ todo' = {}
                           /\ state' = <<>>
                           /\ last' = NoSync
                           /\ cycle' = Ended(c, FALSE, _load_state(stateFile) = r.state)
                      ELSE /\ phase' = phase
                           /\ todo' = todo \ {p}
                           /\ state' = r.state
                           /\ last' = [path |-> p, outcome |-> r.outcome, log |-> r.log,
                                       page_id |-> r.page_id, blocks |-> r.blocks,
                                       failed |-> Failed(r.log, fault),
                                       cleared |-> p \in cycle.cleared,
                                       before |-> RecordOf(state, p),
                                       titled |-> Titled(pages, Stem(p))]
                           /\ cycle' = c
       IN  Returned(_sync_file(state, pages, p, [files[p] EXCEPT !.readable = readable],
                               fault))
    /\ UNCHANGED <<files, stateFile, clock>>

\* the end of sync(): _save_state writes the state file
EndCycle ==
    /\ phase = "syncing"
    /\ todo = {}
    /\ phase' = "idle"
    /\ stateFile' = Saved(state)
    /\ state' = <<>>
    /\ last' = NoSync
    /\ cycle' = Ended(cycle, TRUE, _load_state(stateFile') = state)
    /\ UNCHANGED <<files, pages, todo, clock>>

\* the end of sync() when _save_state fails: the error is logged, the file is
\* as it was (open failed) or truncated (the write failed)
EndCycleSaveFailed(truncated) ==
    /\ phase = "syncing"
    /\ todo = {}
    /\ phase' = "idle"
    /\ stateFile' = IF truncated THEN Corrupt ELSE stateFile
    /\ state' = <<>>
    /\ last' = NoSync
    /\ cycle' = Ended(cycle, TRUE, _load_state(stateFile') = state)
    /\ UNCHANGED <<files, pages, todo, clock>>

\* the user writes a file of the vault
EditFile(p, text) ==
    /\ phase = "idle"
    /\ ~(files[p].exists /\ files[p].content = text)
    /\ files' = [files EXCEPT ![p] =
                   [exists |-> TRUE, readable |-> TRUE, content |-> text, mtime |-> clock]]
    /\ cycle' = [cycle EXCEPT !.quiet = FALSE, !.owed = @ \ {p}, !.cleared = @ \ {p}]
    /\ UNCHANGED <<stateFile, state, pages, phase, todo, clock, last>>

\* the user deletes a file of the vault
DeleteFile(p) ==
    /\ phase = "idle"
    /\ files[p].exists
    /\ files' = [files EXCEPT ![p] = NoFile]
    /\ cycle' = [cycle EXCEPT !.quiet = FALSE, !.owed = @ \ {p}, !.cleared = @ \ {p}]
    /\ UNCHANGED <<stateFile, state, pages, phase, todo, clock, last>>

Next ==
    \/ StartCycle
    \/ \E p \in Paths, fault \in 0..MaxFault : SyncFile(p, fault, TRUE)
    \/ \E p \in Paths : SyncFile(p, 0, FALSE)
    \/ EndCycle
    \/ \E truncated \in BOOLEAN : EndCycleSaveFailed(truncated)
    \/ \E p \in Paths, text \in Texts : EditFile(p, text)
    \/ \E p \in Paths : DeleteFile(p)

Spec == Init /\ [][Next]_vars

\* a SyncFile(p, 0, TRUE) step: the file is read and no remote call fails
CleanSync(p) ==
    /\ phase = "syncing" /\ p \in todo /\ p \notin todo'
    /\ last'.failed = 0 /\ last'.outcome # "unreadable"

\* the scheduler of main.py starts job after job and a job runs to its end;
\* time and again a file is read and every remote call made for it succeeds:
\* SF_vars(SyncFile(p, 0, TRUE)) written out, such a step being possible
\* exactly when p is still to do in a running job
FairSpec ==
    /\ Spec
    /\ WF_vars(StartCycle)
    /\ WF_vars(EndCycle \/ \E truncated \in BOOLEAN : EndCycleSaveFailed(truncated))
    /\ \A p \in Paths :
          []<>(phase = "syncing" /\ p \in todo) => []<><<CleanSync(p)>>_vars

(***************************************************************************)
(* The jobs of a service that finds any state file when it starts          *)
(***************************************************************************)

\* the first job may find no state file, one json.load cannot read, one that
\* holds an empty object and one that holds an empty list
InitLoad ==
    /\ files = [p \in Paths |-> NoFile]
    /\ stateFile \in {Missing, Corrupt, Saved(<<>>), Saved(NotADict)}
    /\ state = <<>>
    /\ pages = <<>>
    /\ phase = "idle"
    /\ todo = {}
    /\ clock = 0
    /\ last = NoSync
    /\ cycle = NoCycle

SpecLoad == InitLoad /\ [][Next]_vars

(***************************************************************************)
(* The jobs of a service while the time of day goes by: files are written  *)
(* at one time and synced at another                                       *)
(***************************************************************************)

\* the latest time of day
MaxClock == 2

\* time goes by between two steps (main.py: time.sleep in the scheduler loop)
Tick ==
    /\ clock < MaxClock
    /\ clock' = clock + 1
    /\ UNCHANGED <<files, stateFile, state, pages, phase, todo, last, cycle>>

\* the jobs read every file and no remote call of theirs fails; the user
\* writes one of two texts
NextClock ==
    \/ Tick
    \/ StartCycle
    \/ \E p \in Paths : SyncFile(p, 0, TRUE)
    \/ EndCycle
    \/ \E p \in Paths, text \in {TextHeading, TextTagged} : EditFile(p, text)

SpecClock == Init /\ [][NextClock]_vars

(***************************************************************************)
(* update_page called over and over on one page, with block sequences      *)
(* around the batch size and one of the first remote calls failing         *)
(***************************************************************************)

\* the numbers of blocks a call passes
BlockCounts == {0, 1, BatchSize, BatchSize + 1, 2 * BatchSize + 1}

\* n paragraphs that differ
Paragraphs(n) == [i \in 1..n |-> _create_paragraph_block(<<<<"a", "b", "c">>[(i % 3) + 1]>>)]

\* the properties every call passes
SomeProperties == _build_properties(<<"n", "o", "t", "e">>, EmptyMap, 0)

InitUpdate ==
    /\ files = [p \in Paths |-> NoFile]
    /\ stateFile = Missing
    /\ state = <<>>
    /\ pages = <<[properties |-> SomeProperties, children |-> <<>>]>>
    /\ phase = "idle"
    /\ todo = {}
    /\ clock = 0
    /\ last = NoSync
    /\ cycle = NoCycle

\* update_page(1, properties, blocks) with n blocks, the fault-th call
\* failing; the call that follows one with a failed call has none
UpdatePage(n, fault) ==
    /\ last.failed = 0 \/ fault = 0
    /\ LET Returned(u) ==
               /\ pages' = u.pages
               /\ last' = [NoSync EXCEPT !.outcome = IF u.ok THEN "updated" ELSE "failed",
                                          !.log = u.log, !.page_id = 1,
                                          !.blocks = Paragraphs(n),
                                          !.failed = Failed(u.log, fault)]
       IN  Returned(update_page(pages, 1, SomeProperties, Paragraphs(n), <<>>, fault))
    /\ UNCHANGED <<files, stateFile, state, phase, todo, clock, cycle>>

NextUpdate == \E n \in BlockCounts, fault \in 0..MaxFault : UpdatePage(n, fault)

SpecUpdate == InitUpdate /\ [][NextUpdate]_vars

(***************************************************************************)
(* _parse_body_to_blocks and _create_image_block applied to the body of    *)
(* one document, the bodies being made of lines of every kind the parser   *)
(* tells apart                                                             *)
(***************************************************************************)

\* the lines the longer bodies are made of. A line kind is a line and the
\* block a line of that text gives outside a code fence: its type ("blank":
\* none, "fence": it opens or closes a fence), text content (the URL of an
\* image) and to_do flag
CoreLines ==
    LET LineKind(text, type, content, checked) ==
            [text |-> text, type |-> type, content |-> content, checked |-> checked]
    IN  {LineKind(<<>>, "blank", <<>>, FALSE),
         LineKind(<<" ">>, "blank", <<>>, FALSE),
         LineKind(<<"#", " ", "a">>, "heading_1", <<"a">>, FALSE),
         LineKind(<<"-", " ", "b">>, "bulleted_list_item", <<"b">>, FALSE),
         LineKind(<<"c">>, "paragraph", <<"c">>, FALSE),
         LineKind(<<Backquote, Backquote, Backquote>>, "fence", <<>>, FALSE),
         LineKind(<<Backquote, Backquote, Backquote, "p", "y">>, "fence", <<>>, FALSE)}

\* the core lines and the lines of the other kinds
LineKinds ==
    LET LineKind(text, type, content, checked) ==
            [text |-> text, type |-> type, content |-> content, checked |-> checked]
    IN  CoreLines \cup
        {LineKind(<<"#", "#", " ", "h">>, "heading_2", <<"h">>, FALSE),
         LineKind(<<"#", "#", "#", " ", "h">>, "heading_3", <<"h">>, FALSE),
         LineKind(<<"*", " ", "s">>, "bulleted_list_item", <<"s">>, FALSE),
         LineKind(<<" ", " ", "-", " ", "i">>, "bulleted_list_item", <<"i">>, FALSE),
         LineKind(<<"-", " ", "[", " ", "]", " ", "t">>, "to_do", <<"t">>, FALSE),
         LineKind(<<"-", " ", "[", "x", "]", " ", "t">>, "to_do", <<"t">>, TRUE),
         LineKind(<<"1", ".", " ", "n">>, "numbered_list_item", <<"n">>, FALSE),
         LineKind(<<">", " ", "q">>, "quote", <<"q">>, FALSE),
         LineKind(<<"#", "x">>, "paragraph", <<"#", "x">>, FALSE),
         LineKind(<<" ", "#", " ", "a">>, "paragraph", <<" ", "#", " ", "a">>, FALSE),
         LineKind(<<"!", "[", "a", "]", "(", "h", "t", "t", "p", ":", "/", "/", "x", ")">>, "image", <<"h", "t", "t", "p", ":", "/", "/", "x">>, FALSE),
         LineKind(<<"!", "[", "a", "]", "(", "x", ".", "p", "n", "g", ")">>, "paragraph", <<"!", "[", "a", "]", "(", "x", ".", "p", "n", "g", ")">>, FALSE),
         LineKind(<<"!", "[", "[", "e", ".", "p", "n", "g", "]", "]">>, "paragraph", <<"[", "I", "m", "a", "g", "e", ":", " ", "e", ".", "p", "n", "g", "]">>, FALSE)}

\* the most lines of a body of core lines, and of a body of lines of any kind
MaxLines == 4

MaxOtherLines == 2

SeqsUpTo(S, n) == UNION {[1..k -> S] : k \in 0..n}

\* the body whose lines are those of kinds
Body(kinds) == Join([k \in 1..Len(kinds) |-> kinds[k].text], <<"\n">>)

\* bodies of one block whose text is around the ceiling: a body, the type
\* and to_do flag of the block it gives, and the text content of that block
\* before the cut to the ceiling. A line of each prefix, a line that is one
\* link and one that is one embed, a fence of one content line and a fence
\* of two
LongCases ==
    LET Filler(n) == [i \in 1..n |-> "a"]
        Lengths == {MaxTextLen - 1, MaxTextLen, MaxTextLen + 1, MaxTextLen + 40}
        LinePrefixes ==
            {[text |-> <<"#", " ">>, type |-> "heading_1", checked |-> FALSE],
             [text |-> <<"#", "#", " ">>, type |-> "heading_2", checked |-> FALSE],
             [text |-> <<"#", "#", "#", " ">>, type |-> "heading_3", checked |-> FALSE],
             [text |-> <<"-", " ">>, type |-> "bulleted_list_item", checked |-> FALSE],
             [text |-> <<"-", " ", "[", " ", "]", " ">>, type |-> "to_do", checked |-> FALSE],
             [text |-> <<"-", " ", "[", "x", "]", " ">>, type |-> "to_do", checked |-> TRUE],
             [text |-> <<"1", ".", " ">>, type |-> "numbered_list_item", checked |-> FALSE],
             [text |-> <<">", " ">>, type |-> "quote", checked |-> FALSE],
             [text |-> <<>>, type |-> "paragraph", checked |-> FALSE]}
        LongCase(body, type, checked, uncut) ==
            [body |-> body, type |-> type, checked |-> checked, uncut |-> uncut]
    IN  {LongCase(x.text \o Filler(n), x.type, x.checked, Filler(n)) :
            x \in LinePrefixes, n \in Lengths}
        \cup {LongCase(<<"[", "[">> \o Filler(n) \o <<"]", "]">>, "paragraph", FALSE,
                       Filler(n)) : n \in Lengths}
        \cup {LongCase(<<"!", "[", "[">> \o Filler(n - 9) \o <<"]", "]">>, "paragraph", FALSE,
                       <<"[", "I", "m", "a", "g", "e", ":", " ">> \o Filler(n - 9) \o <<"]">>) :
                 n \in Lengths}
        \cup {LongCase(Fence \o <<"\n">> \o Filler(n) \o <<"\n">> \o Fence, "code", FALSE,
                       Filler(n)) : n \in Lengths}
        \cup {LongCase(Fence \o <<"\n", "#", " ", "\n">> \o Filler(n - 3), "code", FALSE,
                       <<"#", " ", "\n">> \o Filler(n - 3)) : n \in Lengths}

\* lines that are one image reference: the line, its target, whether it is
\* a standard reference ![alt](target) (an embed ![[target]] otherwise) and
\* whether the target is an absolute network address
ImageCases ==
    LET ImageCase(line, target, standard, absolute) ==
            [line |-> line, target |-> target, standard |-> standard, absolute |-> absolute]
    IN  {ImageCase(<<"!", "[", "a", "]", "(", "h", "t", "t", "p", ":", "/", "/", "x", "/", "y", ".", "p", "n", "g", ")">>,
                   <<"h", "t", "t", "p", ":", "/", "/", "x", "/", "y", ".", "p", "n", "g">>, TRUE, TRUE),
         ImageCase(<<"!", "[", "a", "]", "(", "h", "t", "t", "p", "s", ":", "/", "/", "x", "/", "y", ".", "p", "n", "g", ")">>,
                   <<"h", "t", "t", "p", "s", ":", "/", "/", "x", "/", "y", ".", "p", "n", "g">>, TRUE, TRUE),
         ImageCase(<<"!", "[", "]", "(", "h", "t", "t", "p", "s", ":", "/", "/", "x", "/", "y", ".", "p", "n", "g", ")">>,
                   <<"h", "t", "t", "p", "s", ":", "/", "/", "x", "/", "y", ".", "p", "n", "g">>, TRUE, TRUE),
         ImageCase(<<"!", "[", "a", "]", "(", "x", ".", "p", "n", "g", ")">>,
                   <<"x", ".", "p", "n", "g">>, TRUE, FALSE),
         ImageCase(<<"!", "[", "a", "]", "(", "/", "i", "m", "g", "/", "x", ".", "p", "n", "g", ")">>,
                   <<"/", "i", "m", "g", "/", "x", ".", "p", "n", "g">>, TRUE, FALSE),
         ImageCase(<<"!", "[", "a", "]", "(", ".", ".", "/", "x", ".", "p", "n", "g", ")">>,
                   <<".", ".", "/", "x", ".", "p", "n", "g">>, TRUE, FALSE),
         ImageCase(<<"!", "[", "a", "]", "(", "h", "t", "t", "p", "d", "o", "c", "s", "/", "x", ".", "p", "n", "g", ")">>,
                   <<"h", "t", "t", "p", "d", "o", "c", "s", "/", "x", ".", "p", "n", "g">>, TRUE, FALSE),
         ImageCase(<<"!", "[", "[", "e", ".", "p", "n", "g", "]", "]">>,
                   <<"e", ".", "p", "n", "g">>, FALSE, FALSE),
         ImageCase(<<"!", "[", "[", "h", "t", "t", "p", ":", "/", "/", "x", "/", "e", ".", "p", "n", "g", "]", "]">>,
                   <<"h", "t", "t", "p", ":", "/", "/", "x", "/", "e", ".", "p", "n", "g">>, FALSE, TRUE)}

\* bodies that are one fenced code block: the body, the content of the
\* block and its language. Fences of three backquotes, of four and of three
\* tildes, with no language, with one and with more words after the marker,
\* and fences that hold a line of the other marker
FenceCases ==
    LET FenceCase(body, content, language) ==
            [body |-> body, content |-> content, language |-> language]
    IN  {FenceCase(<<Backquote, Backquote, Backquote, "\n", "x", "\n", Backquote, Backquote, Backquote>>,
                   <<"x">>, <<"p", "l", "a", "i", "n", " ", "t", "e", "x", "t">>),
         FenceCase(<<Backquote, Backquote, Backquote, "p", "y", "\n", "x", "\n", Backquote, Backquote, Backquote>>,
                   <<"x">>, <<"p", "y">>),
         FenceCase(<<Backquote, Backquote, Backquote, " ", "p", "y", " ", "e", "x", "t", "r", "a", "\n", "x", "\n", Backquote, Backquote, Backquote>>,
                   <<"x">>, <<"p", "y">>),
         FenceCase(<<Backquote, Backquote, Backquote, Backquote, "p", "y", "\n", "x", "\n", Backquote, Backquote, Backquote, Backquote>>,
                   <<"x">>, <<"p", "y">>),
         FenceCase(<<"~", "~", "~", "\n", "x", "\n", "~", "~", "~">>,
                   <<"x">>, <<"p", "l", "a", "i", "n", " ", "t", "e", "x", "t">>),
         FenceCase(<<"~", "~", "~", "p", "y", "\n", "x", "\n", "~", "~", "~">>,
                   <<"x">>, <<"p", "y">>),
         FenceCase(<<Backquote, Backquote, Backquote, "p", "y", "\n", "x", "\n", "~", "~", "~", "\n", "y", "\n", Backquote, Backquote, Backquote>>,
                   <<"x", "\n", "~", "~", "~", "\n", "y">>, <<"p", "y">>),
         FenceCase(<<"~", "~", "~", "p", "y", "\n", "x", "\n", Backquote, Backquote, Backquote, "\n", "y", "\n", "~", "~", "~">>,
                   <<"x", "\n", Backquote, Backquote, Backquote, "\n", "y">>, <<"p", "y">>)}

\* lines that hold an image reference: the line, whether the whole trimmed
\* line is the reference, and the content of the block the line is to give
\* (the URL of the image when it is, the text of the line, embeds rendered,
\* when it is not). A reference between spaces, and references with text
\* after them and before them
MixedImageCases ==
    LET MixedImageCase(line, whole, content) ==
            [line |-> line, whole |-> whole, content |-> content]
    IN  {MixedImageCase(<<" ", "!", "[", "a", "]", "(", "h", "t", "t", "p", ":", "/", "/", "x", "/", "y", ".", "p", "n", "g", ")", " ">>,
                        TRUE, <<"h", "t", "t", "p", ":", "/", "/", "x", "/", "y", ".", "p", "n", "g">>),
         MixedImageCase(<<"!", "[", "a", "]", "(", "h", "t", "t", "p", ":", "/", "/", "x", "/", "y", ".", "p", "n", "g", ")", " ", "t">>,
                        FALSE, <<"!", "[", "a", "]", "(", "h", "t", "t", "p", ":", "/", "/", "x", "/", "y", ".", "p", "n", "g", ")", " ", "t">>),
         MixedImageCase(<<"t", " ", "!", "[", "a", "]", "(", "h", "t", "t", "p", ":", "/", "/", "x", "/", "y", ".", "p", "n", "g", ")">>,
                        FALSE, <<"t", " ", "!", "[", "a", "]", "(", "h", "t", "t", "p", ":", "/", "/", "x", "/", "y", ".", "p", "n", "g", ")">>),
         MixedImageCase(<<"!", "[", "a", "]", "(", "x", ".", "p", "n", "g", ")", " ", "t">>,
                        FALSE, <<"!", "[", "a", "]", "(", "x", ".", "p", "n", "g", ")", " ", "t">>),
         MixedImageCase(<<"!", "[", "[", "e", ".", "p", "n", "g", "]", "]", " ", "t">>,
                        FALSE, <<"[", "I", "m", "a", "g", "e", ":", " ", "e", ".", "p", "n", "g", "]", " ", "t">>),
         MixedImageCase(<<"t", " ", "!", "[", "[", "e", ".", "p", "n", "g", "]", "]">>,
                        FALSE, <<"t", " ", "[", "I", "m", "a", "g", "e", ":", " ", "e", ".", "p", "n", "g", "]">>)}

\* the bodies: up to MaxLines core lines, up to MaxOtherLines lines of any
\* kind, the long bodies, the image lines, the fenced code blocks and the
\* lines that hold an image reference and more
Bodies ==
    {Body(kinds) : kinds \in SeqsUpTo(CoreLines, MaxLines) \cup SeqsUpTo(LineKinds, MaxOtherLines)}
    \cup {c.body : c \in LongCases} \cup {c.line : c \in ImageCases}
    \cup {c.body : c \in FenceCases} \cup {c.line : c \in MixedImageCases}

\* the document the parser is applied to
DocPath == [dir |-> "a", stem |-> <<"n", "o", "t", "e">>]

\* a vault with the one document DocPath, holding content
OneFile(content) ==
    [p \in Paths |-> IF p = DocPath
                     THEN [exists |-> TRUE, readable |-> TRUE, content |-> content, mtime |-> 0]
                     ELSE NoFile]

InitConvert ==
    /\ \E body \in Bodies : files = OneFile(body)
    /\ stateFile = Missing
    /\ state = <<>>
    /\ pages = <<>>
    /\ phase = "idle"
    /\ todo = {}
    /\ clock = 0
    /\ last = NoSync
    /\ cycle = NoCycle

\* _parse_body_to_blocks(body) on the body the document holds
Convert(p) ==
    /\ files[p].exists
    /\ last' = [NoSync EXCEPT !.path = p, !.outcome = "converted",
                              !.blocks = _parse_body_to_blocks(files[p].content)]
    /\ UNCHANGED <<files, stateFile, state, pages, phase, todo, clock, cycle>>

\* _create_image_block(line) on a document of one line; blocks holds the
\* block returned, NoBlock for None
ResolveImage(p) ==
    /\ files[p].exists
    /\ IndexOf(files[p].content, <<"\n">>, 1) = 0
    /\ last' = [NoSync EXCEPT !.path = p, !.outcome = "resolved",
                              !.blocks = <<_create_image_block(files[p].content)>>]
    /\ UNCHANGED <<files, stateFile, state, pages, phase, todo, clock, cycle>>

NextConvert == \E p \in Paths : Convert(p) \/ ResolveImage(p)

SpecConvert == InitConvert /\ [][NextConvert]_vars

(***************************************************************************)
(* The two while loops of _parse_body_to_blocks one iteration at a time:   *)
(* last is the scanner [path, outcome, i, in_code, code_content, language, *)
(* blocks]: i is the index of the next line (from 1), in_code tells that   *)
(* the inner loop runs, code_content and language are those of the fence   *)
(* it runs for, blocks are the blocks appended so far; outcome is          *)
(* "scanning" until the outer loop ends and "scanned" when blocks has been *)
(* returned                                                                *)
(***************************************************************************)

\* the lines the scanner works on: body.split('\n')
LinesOf(p) == Split(files[p].content, "\n")

\* the scanner before the first iteration
ScanStart(p) ==
    [path |-> p, outcome |-> "scanning", i |-> 1, in_code |-> FALSE, code_content |-> <<>>,
     language |-> <<>>, blocks |-> <<>>]

\* one iteration of the outer loop up to its continue, its i += 1 or the
\* start of the inner loop: a blank line is passed, a fence line starts the
\* inner loop, any other line gives its block
ScanLine(scan, lines) ==
    IF Strip(lines[scan.i]) = <<>> THEN [scan EXCEPT !.i = @ + 1]
    ELSE IF IsFenceLine(lines[scan.i])
    THEN [scan EXCEPT !.i = @ + 1, !.in_code = TRUE, !.code_content = <<>>,
                      !.language = Strip(Drop(Strip(lines[scan.i]), 3))]
    ELSE [scan EXCEPT !.i = @ + 1, !.blocks = Append(@, LineBlock(lines[scan.i]))]

\* the code block of a fence that the end of the lines cuts short left out
UnclosedFenceDropped(scan, lines) ==
    [scan EXCEPT !.i = IF @ <= Len(lines) THEN @ + 1 ELSE @,
                 !.in_code = FALSE,
                 !.blocks = IF scan.i <= Len(lines)
                            THEN Append(@, _create_code_block(Join(scan.code_content, <<"\n">>),
                                                              scan.language))
                            ELSE @]

\* the end of the inner loop: the closing fence line, if there is one, is
\* consumed, and the code block is appended
FenceExit(scan, lines) ==
    [scan EXCEPT !.i = IF @ <= Len(lines) THEN @ + 1 ELSE @,
                 !.in_code = FALSE,
                 !.blocks = Append(@, _create_code_block(Join(scan.code_content, <<"\n">>),
                                                         scan.language))]

\* one test of the condition of the inner loop, and its body or its end
ScanFence(scan, lines) ==
    IF scan.i <= Len(lines) /\ ~IsFenceLine(lines[scan.i])
    THEN [scan EXCEPT !.i = @ + 1, !.code_content = Append(@, lines[scan.i])]
    ELSE FenceExit(scan, lines)

\* the scanner at the start of a body of up to MaxLines core lines or of up
\* to MaxOtherLines lines of any kind
InitScan ==
    /\ \E kinds \in SeqsUpTo(CoreLines, MaxLines) \cup SeqsUpTo(LineKinds, MaxOtherLines) :
          files = OneFile(Body(kinds))
    /\ stateFile = Missing
    /\ state = <<>>
    /\ pages = <<>>
    /\ phase = "idle"
    /\ todo = {}
    /\ clock = 0
    /\ last = ScanStart(DocPath)
    /\ cycle = NoCycle

\* an iteration of the outer loop
StepLine(p) ==
    /\ last.path = p /\ last.outcome = "scanning"
    /\ ~last.in_code /\ last.i <= Len(LinesOf(p))
    /\ last' = ScanLine(last, LinesOf(p))
    /\ UNCHANGED <<files, stateFile, state, pages, phase, todo, clock, cycle>>

\* an iteration of the inner loop, or its end
StepFence(p) ==
    /\ last.path = p /\ last.outcome = "scanning"
    /\ last.in_code
    /\ last' = ScanFence(last, LinesOf(p))
    /\ UNCHANGED <<files, stateFile, state, pages, phase, todo, clock, cycle>>

\* the outer loop ends and blocks is returned
ScanEnd(p) ==
    /\ last.path = p /\ last.outcome = "scanning"
    /\ ~last.in_code /\ last.i > Len(LinesOf(p))
    /\ last' = [last EXCEPT !.outcome = "scanned"]
    /\ UNCHANGED <<files, stateFile, state, pages, phase, todo, clock, cycle>>

NextScan == \E p \in Paths : StepLine(p) \/ StepFence(p) \/ ScanEnd(p)

\* the interpreter runs the loops on: a scanner that has not returned takes
\* its next step (until it returns exactly one of the three steps can be
\* taken)
SpecScan ==
    /\ InitScan /\ [][NextScan]_vars
    /\ []<>(last.outcome = "scanning") => []<><<NextScan>>_vars

(***************************************************************************)
(* _extract_frontmatter and _build_properties applied to one document:     *)
(* documents whose frontmatter gives or leaves out the date, created, tags *)
(* and tag keys, and documents with and without a delimited frontmatter    *)
(***************************************************************************)

\* the frontmatters: every choice of the date, created, tags and tag keys,
\* date before created or after it. A value of the date or created key is
\* [given, text, str, null]: whether the key is given, the text after the
\* colon, what str() gives for the value YAML loads from it, and whether
\* that value is None. A value of the tags or tag key is [given, text,
\* labels, entry]: the labels of the Tags entry it is to give, and whether
\* it is to give one
PropertyCases ==
    LET DateValue(text, str, null) ==
            [given |-> TRUE, text |-> text, str |-> str, null |-> null]
        NoDateValue == [given |-> FALSE, text |-> <<>>, str |-> <<>>, null |-> TRUE]
        DateValues ==
            {DateValue(<<"2", "0", "2", "4", "-", "0", "1", "-", "0", "2">>, <<"2", "0", "2", "4", "-", "0", "1", "-", "0", "2">>, FALSE),
             DateValue(<<"x">>, <<"x">>, FALSE),
             DateValue(<<"7">>, <<"7">>, FALSE),
             DateValue(<<"0">>, <<"0">>, FALSE),
             DateValue(<<"f", "a", "l", "s", "e">>, <<"F", "a", "l", "s", "e">>, FALSE),
             DateValue(<<>>, <<"N", "o", "n", "e">>, TRUE)}
        CreatedValues ==
            {DateValue(<<"2", "0", "2", "0", "-", "0", "5", "-", "0", "6">>, <<"2", "0", "2", "0", "-", "0", "5", "-", "0", "6">>, FALSE),
             DateValue(<<>>, <<"N", "o", "n", "e">>, TRUE)}
        TagsValue(text, labels, entry) ==
            [given |-> TRUE, text |-> text, labels |-> labels, entry |-> entry]
        NoTagsValue == [given |-> FALSE, text |-> <<>>, labels |-> <<>>, entry |-> FALSE]
        TagsValues ==
            {TagsValue(<<"a", ",", " ", "b", ",", "c">>, <<<<"a">>, <<"b">>, <<"c">>>>, TRUE),
             TagsValue(<<"a", " ", "b", " ", "c">>, <<<<"a">>, <<"b">>, <<"c">>>>, TRUE),
             TagsValue(<<"a">>, <<<<"a">>>>, TRUE),
             TagsValue(<<"a", " ", " ", "b">>, <<<<"a">>, <<"b">>>>, TRUE),
             TagsValue(<<"a", ",", "b", " ", "c">>, <<<<"a">>, <<"b", " ", "c">>>>, TRUE),
             TagsValue(<<"a", ",", ",", "b">>, <<<<"a">>, <<>>, <<"b">>>>, TRUE),
             TagsValue(<<"[", "a", ",", " ", "b", "]">>, <<<<"a">>, <<"b">>>>, TRUE),
             TagsValue(<<>>, <<>>, FALSE),
             TagsValue(<<"[", "]">>, <<>>, FALSE)}
        TagValues ==
            {TagsValue(<<"z">>, <<<<"z">>>>, TRUE)}
    IN  [date : DateValues \cup {NoDateValue}, created : CreatedValues \cup {NoDateValue},
         tags : TagsValues \cup {NoTagsValue}, tag : TagValues \cup {NoTagsValue},
         createdFirst : BOOLEAN]

\* the document of every case: a title line, the lines of the keys given
\* (none for a key that is not given), a body
PropertyDocuments ==
    LET Entry(key, v) ==
            IF ~v.given THEN <<>>
            ELSE IF v.text = <<>> THEN <<key \o <<":">>>>
            ELSE <<key \o <<":", " ">> \o v.text>>
        Ordered(c, date, created) ==
            <<"-", "-", "-", "\n">>
              \o Join(<<<<"k", ":", " ", "v">>>>
                        \o (IF c.createdFirst THEN created \o date ELSE date \o created)
                        \o Entry(<<"t", "a", "g", "s">>, c.tags)
                        \o Entry(<<"t", "a", "g">>, c.tag), <<"\n">>)
              \o <<"\n", "-", "-", "-", "\n", "b">>
    IN  [c \in PropertyCases |->
            Ordered(c, Entry(<<"d", "a", "t", "e">>, c.date),
                    Entry(<<"c", "r", "e", "a", "t", "e", "d">>, c.created))]

\* documents with and without a frontmatter: a document, what follows its
\* closing delimiter line, whether it starts with a delimited frontmatter
\* and whether the frontmatter loads (a mapping, a list, a flow sequence
\* left open, a bare scalar, nothing). A frontmatter between two delimiter
\* lines, then any rest; the same after a bad opening; a closing delimiter
\* the document ends with, no line break after it; no delimiter at all
ExtractCases ==
    LET YamlTexts ==
            {[text |-> <<"k", ":", " ", "v">>, loads |-> TRUE],
             [text |-> <<"-", " ", "x">>, loads |-> TRUE],
             [text |-> <<"k", ":", " ", "[">>, loads |-> FALSE],
             [text |-> <<"x">>, loads |-> TRUE],
             [text |-> <<>>, loads |-> TRUE]}
        Rests ==
            {<<>>,
             <<"b">>,
             <<" ", " ", "b">>,
             <<"b", "\n", "-", "-", "-", "\n", "c", "\n">>,
             <<"\n", "b">>,
             <<" ", "\n", "b">>,
             <<"\n">>}
        BadOpenings ==
            {<<>>,
             <<"\n", "-", "-", "-", "\n">>,
             <<" ", "-", "-", "-", "\n">>,
             <<"-", "-", "-", "-", "\n">>}
        ExtractCase(content, rest, delimited, loads) ==
            [content |-> content, rest |-> rest, delimited |-> delimited, loads |-> loads]
    IN  {ExtractCase(Dashes \o <<"\n">> \o y.text \o <<"\n">> \o Dashes \o <<"\n">> \o rest,
                     rest, TRUE, y.loads) : y \in YamlTexts, rest \in Rests}
        \cup {ExtractCase(o \o y.text \o <<"\n">> \o Dashes \o <<"\n", "b">>,
                          <<"b">>, FALSE, y.loads) : o \in BadOpenings, y \in YamlTexts}
        \cup {ExtractCase(Dashes \o <<"\n">> \o y.text \o <<"\n">> \o Dashes,
                          <<>>, FALSE, y.loads) : y \in YamlTexts}
        \cup {ExtractCase(<<"#", " ", "t", "\n">> \o rest, rest, FALSE, FALSE) : rest \in Rests}

Documents == {PropertyDocuments[c] : c \in PropertyCases} \cup {c.content : c \in ExtractCases}

InitParse ==
    /\ \E content \in Documents : files = OneFile(content)
    /\ stateFile = Missing
    /\ state = <<>>
    /\ pages = <<>>
    /\ phase = "idle"
    /\ todo = {}
    /\ clock = 0
    /\ last = NoSync
    /\ cycle = NoCycle

\* _extract_frontmatter(content) on the text the document holds
Extract(p) ==
    /\ files[p].exists
    /\ LET Returned(r) ==
               last' = [path |-> p, outcome |-> "extracted",
                        frontmatter |-> r.frontmatter, body |-> r.body]
       IN  Returned(_extract_frontmatter(files[p].content))
    /\ UNCHANGED <<files, stateFile, state, pages, phase, todo, clock, cycle>>

\* _build_properties(title, frontmatter, file_path) on the frontmatter
\* extracted from the document
Build(p) ==
    /\ files[p].exists
    /\ LET Returned(properties) ==
               last' = [path |-> p, outcome |-> "built", properties |-> properties]
       IN  Returned(_build_properties(Stem(p), _extract_frontmatter(files[p].content).frontmatter,
                                      files[p].mtime))
    /\ UNCHANGED <<files, stateFile, state, pages, phase, todo, clock, cycle>>

NextParse == \E p \in Paths : Extract(p) \/ Build(p)

SpecParse == InitParse /\ [][NextParse]_vars

(***************************************************************************)
(* _create_rich_text applied to the text of one document, the texts being  *)
(* made of plain characters, embeds and links                              *)
(***************************************************************************)

\* the pieces texts are made of, each with what it is to be rendered as: a
\* plain character, an embed, an embed with a size, a link, a link with an
\* alias and one with an empty alias
Tokens ==
    LET Token(text, rendered) == [text |-> text, rendered |-> rendered]
    IN  {Token(<<"a">>, <<"a">>),
         Token(<<" ">>, <<" ">>),
         Token(<<"|">>, <<"|">>),
         Token(<<"!", "[", "[", "i", ".", "p", "n", "g", "]", "]">>, <<"[", "I", "m", "a", "g", "e", ":", " ", "i", ".", "p", "n", "g", "]">>),
         Token(<<"!", "[", "[", "i", "|", "4", "0", "]", "]">>, <<"[", "I", "m", "a", "g", "e", ":", " ", "i", "|", "4", "0", "]">>),
         Token(<<"[", "[", "p", "]", "]">>, <<"p">>),
         Token(<<"[", "[", "p", "|", "q", "]", "]">>, <<"q">>),
         Token(<<"[", "[", "p", "|", "]", "]">>, <<"p">>)}

\* the most tokens of a text
MaxTokens == 3

\* the texts and the rendering of their tokens, token after token
RenderCases ==
    LET RenderCase(tokens) ==
            [text |-> Join([k \in 1..Len(tokens) |-> tokens[k].text], <<>>),
             rendered |-> Join([k \in 1..Len(tokens) |-> tokens[k].rendered], <<>>)]
    IN  {RenderCase(tokens) : tokens \in SeqsUpTo(Tokens, MaxTokens)}

\* the one text object of the list _create_rich_text returns
TextRun(content) == Block("text", content, FALSE, <<>>)

InitRender ==
    /\ \E c \in RenderCases : files = OneFile(c.text)
    /\ stateFile = Missing
    /\ state = <<>>
    /\ pages = <<>>
    /\ phase = "idle"
    /\ todo = {}
    /\ clock = 0
    /\ last = NoSync
    /\ cycle = NoCycle

\* _create_rich_text(text) on the text the document holds
Render(p) ==
    /\ files[p].exists
    /\ last' = [NoSync EXCEPT !.path = p, !.outcome = "rendered",
                              !.blocks = <<TextRun(_create_rich_text(files[p].content))>>]
    /\ UNCHANGED <<files, stateFile, state, pages, phase, todo, clock, cycle>>

NextRender == \E p \in Paths : Render(p)

SpecRender == InitRender /\ [][NextRender]_vars

(***************************************************************************)
(* Properties of a sync cycle                                              *)
(***************************************************************************)

\* the number of calls of one client method in a log
Count(log, op) == Cardinality({i \in 1..Len(log) : log[i].op = op})

\* the client method whose call failed in a _sync_file call, "none" without one
FailedCall(sync) == IF sync.failed = 0 THEN "none" ELSE sync.log[sync.failed].op

\* the fingerprint of the text a file holds
Fingerprint(p) == Md5(files[p].content)

\* the record of p holds the fingerprint of its text and names a page whose
\* children are the blocks converted from its body
InSync(p) ==
    /\ HasRecord(state, p)
    /\ state[p].hash = Fingerprint(p)
    /\ state[p].page_id \in 1..Len(pages)
    /\ BlocksOf(pages[state[p].page_id].children) = Parsed(files[p].content).blocks

\* C1: at the end of a cycle in which no remote call failed, every document
\* whose record holds its current fingerprint has its recorded page hold
\* exactly the blocks converted from its body, whatever its path and name
C1_EveryDocumentOnItsPage ==
    (phase = "syncing" /\ todo = {} /\ cycle.failed = {})
        => \A p \in cycle.discovered :
              (HasRecord(state, p) /\ state[p].hash = Fingerprint(p)) => InSync(p)

\* C2: processing a document whose fingerprint equals the one of its record
\* issues no remote call and leaves the state (and the pages) as they were
C2_UnchangedIsSkipped ==
    [][\A p \in Paths :
          (/\ phase = "syncing" /\ p \in todo /\ p \notin todo'
           /\ HasRecord(state, p) /\ state[p].hash = Fingerprint(p))
              => (last'.path = p /\ last'.log = <<>> /\ state' = state /\ pages' = pages)]_vars

C2_Witness ==
    /\ last.outcome = "skipped"
    /\ HasRecord(state, last.path)
    /\ state[last.path].hash = Fingerprint(last.path)

\* C3 as stated: a job that starts after another job with no file changed in
\* between issues no remote call
C3_SecondRunIsSilent == cycle.repeat => ~cycle.called

\* C3: a job that starts after another job with no file changed in between
\* issues no remote call, provided that in the job before no remote call
\* failed, every file was read, and the state it ended with is the state the
\* state file holds
C3_SecondRunAfterCleanRunIsSilent == cycle.clean => ~cycle.called

C3_Witness ==
    /\ cycle.clean
    /\ phase = "syncing"
    /\ todo = {}
    /\ cycle.processed = Paths
    /\ last.outcome = "skipped"

\* C4: a document for which a remote call failed in the running job has the
\* record it had when the job started: the old fingerprint and page, or none
C4_FailureKeepsRecord ==
    phase = "syncing"
        => \A p \in cycle.failed : RecordOf(state, p) = RecordOf(_load_state(stateFile), p)

C4_Witness ==
    /\ phase = "syncing"
    /\ FailedCall(last) = "blocks.delete"
    /\ HasRecord(state, last.path)
    /\ state[last.path].hash # Fingerprint(last.path)

\* the latest _sync_file call was made on a document whose text changed since
\* its record was written
Changed(sync) == sync.outcome # "none" /\ sync.before.hash # Fingerprint(sync.path)

\* the calls of a log are those of one update of page_id: pages.update first,
\* every call on that page, no title lookup and no create
UpdateOf(log, page_id) ==
    /\ log # <<>>
    /\ log[1].op = "pages.update"
    /\ \A i \in 1..Len(log) :
          log[i].page = page_id /\ log[i].op \notin {"databases.query", "pages.create"}

\* without a record and without a page of its title a document is created
\* once and not updated; with a page in its record that page is updated,
\* without title lookup or create
CreateOrUpdate(sync) ==
    /\ (sync.before = NoRecord /\ sync.titled = {})
          => (Count(sync.log, "pages.create") = 1 /\ Count(sync.log, "pages.update") = 0)
    /\ sync.before.page_id # 0 => UpdateOf(sync.log, sync.before.page_id)

\* C5 as stated: every changed document is created or updated as CreateOrUpdate says
C5_ChangedIsCreatedOrUpdated == Changed(last) => CreateOrUpdate(last)

\* C5: a changed document that is read and parsed, and whose title lookup
\* (if one is made) succeeds, is created or updated as CreateOrUpdate says
C5_ParsedIsCreatedOrUpdated ==
    (/\ Changed(last)
     /\ last.outcome \notin {"unreadable", "raised"}
     /\ FailedCall(last) # "databases.query")
        => CreateOrUpdate(last)

C5_Witness ==
    /\ Changed(last)
    /\ last.outcome = "updated"
    /\ last.before.page_id # 0
    /\ Len(last.log) > 3

\* C6: no two pages of the database have the same title; a create is only
\* issued when no page has the title of the document; a document without a
\* recorded page whose title some page has gets that page updated
C6_NoDuplicateTitle ==
    /\ \A i, j \in 1..Len(pages) :
          pages[i].properties.Name = pages[j].properties.Name => i = j
    /\ Count(last.log, "pages.create") > 0 => last.titled = {}
    /\ (last.before.page_id = 0 /\ last.titled # {} /\ Len(last.log) > 1)
          => /\ last.log[2].op = "pages.update"
             /\ last.log[2].page \in last.titled
             /\ last.outcome = "updated" => last.page_id \in last.titled

\* a job that loaded an empty state adopts, for its first document, a page
\* that was there when it started
C6_Witness ==
    /\ phase = "syncing"
    /\ _load_state(stateFile) = <<>>
    /\ cycle.processed = {last.path}
    /\ last.before = NoRecord
    /\ last.outcome = "updated"
    /\ last.page_id \in last.titled

\* C7: a job that ran has processed every file it discovered and has saved
\* the state, whatever failed on the way; a document that cannot be read
\* causes no remote call and no change of the state
C7_FailuresAreIsolated ==
    /\ [](phase = "idle" /\ cycle.ran => cycle.complete /\ cycle.saved)
    /\ [][last'.outcome = "unreadable" /\ last' # last
            => (last'.log = <<>> /\ state' = state /\ pages' = pages)]_vars

C7_Witness ==
    /\ phase = "idle"
    /\ cycle.failed # {}
    /\ cycle.unread
    /\ cycle.complete
    /\ cycle.saved

\* C9: after a create or update that succeeded, the record of the document
\* holds its fingerprint and the page: the page created (a new one) or the
\* page updated (the recorded one, else the adopted one)
C9_RecordAfterSuccess ==
    last.outcome \in {"created", "updated"}
        => /\ HasRecord(state, last.path)
           /\ state[last.path].hash = Fingerprint(last.path)
           /\ state[last.path].page_id = last.page_id
           /\ last.outcome = "created"
                 => (last.page_id = Len(pages) /\ last.log[Len(last.log)].op = "pages.create")
           /\ last.outcome = "updated"
                 => /\ \E i \in 1..Len(last.log) :
                          last.log[i].op = "pages.update" /\ last.log[i].page = last.page_id
                    /\ last.page_id =
                          IF last.before.page_id # 0 THEN last.before.page_id
                          ELSE Min(last.titled)

C9_Witness ==
    /\ last.outcome = "created"
    /\ HasRecord(state, last.path)
    /\ state[last.path].page_id = Len(pages)

\* C8: a document whose latest attempt failed on a remote call, and that did
\* not change since, is discovered by every job and not skipped when its turn
\* comes; it reaches a state where its record holds its fingerprint and its
\* page holds the blocks converted from its body, unless its text changes
C8_FailedIsRetried ==
    /\ [](phase = "syncing" => cycle.owed \subseteq cycle.discovered)
    /\ [][\A p \in Paths :
             (phase = "syncing" /\ p \in cycle.owed /\ p \in todo /\ p \notin todo')
                 => (last'.path = p /\ last'.outcome # "skipped")]_vars
    /\ \A p \in Paths, text \in Texts :
          (p \in cycle.owed /\ files[p].content = text)
              ~> (InSync(p) \/ files[p].content # text)

\* a document is in sync after an attempt of the job before had cleared the
\* children of its page and failed to append the new ones
C8_Witness ==
    /\ last.outcome = "updated"
    /\ last.cleared
    /\ InSync(last.path)

\* C10: when update_page returned success the children of the page are the
\* new blocks in their order, and one delete was issued for every child the
\* page had before the call, however many listing pages and batches it took
C10_UpdateReplacesChildren ==
    /\ [](last.outcome = "updated" => BlocksOf(pages[1].children) = last.blocks)
    /\ [][(last'.outcome = "updated" /\ last' # last)
             => /\ Count(last'.log, "blocks.delete") = Len(pages[1].children)
                /\ \A c \in 1..Len(pages[1].children) :
                      \E i \in 1..Len(last'.log) :
                         /\ last'.log[i].op = "blocks.delete"
                         /\ last'.log[i].block_id = pages[1].children[c].id]_vars

C10_Witness ==
    /\ last.outcome = "updated"
    /\ Count(last.log, "blocks.children.list") > 2
    /\ Count(last.log, "blocks.delete") > BatchSize
    /\ Count(last.log, "blocks.children.append") > 2
    /\ BlocksOf(pages[1].children) = Paragraphs(2 * BatchSize + 1)

\* the blocks.children.append calls of a log, in call order
Appends(log) == SelectSeq(log, LAMBDA c : c.op = "blocks.children.append")

\* the blocks the calls carry, one call after the other
RECURSIVE Carried(_)
Carried(calls) ==
    IF calls = <<>> THEN <<>> ELSE calls[1].blocks \o Carried(Tail(calls))

\* C11: every blocks.children.append call of a content replacement carries
\* at least 1 and at most 100 blocks; the batches of a replacement that ran
\* to its end, taken in call order, make up the new block sequence, and the
\* batches of one that a failed call cut short make up a prefix of it
C11_AppendsInBatches ==
    last.outcome \in {"updated", "failed"} =>
        /\ \A k \in 1..Len(Appends(last.log)) :
              /\ Len(Appends(last.log)[k].blocks) >= 1
              /\ Len(Appends(last.log)[k].blocks) <= 100
        /\ Len(Carried(Appends(last.log))) <= Len(last.blocks)
        /\ Carried(Appends(last.log))
              = SubSeq(last.blocks, 1, Len(Carried(Appends(last.log))))
        /\ last.outcome = "updated" => Carried(Appends(last.log)) = last.blocks

\* a replacement that took three batches, the last one of a single block,
\* on a page that had children to delete
C11_Witness ==
    /\ last.outcome = "updated"
    /\ Len(Appends(last.log)) = 3
    /\ Len(Appends(last.log)[3].blocks) = 1
    /\ Count(last.log, "blocks.delete") > 0

\* a state file that holds no state a job can use: missing, not readable as
\* JSON, or JSON that is no object of records
Unusable(file) == file.kind # "ok" \/ file.data = NotADict

\* _sync_file took the document for a new one: it had no record, it was not
\* skipped, and nothing was raised unless the parser raised it
AsNew(sync) ==
    /\ sync.before = NoRecord
    /\ sync.outcome # "skipped"
    /\ sync.outcome = "raised"
          => Parsed(files[sync.path].content).frontmatter.kind # "map"

\* C12: a job that finds the state file missing, unreadable or corrupt,
\* whatever its contents, starts from the empty state and processes every
\* discovered document as a new document
C12_LoadIsTolerant ==
    (phase = "syncing" /\ Unusable(stateFile)) =>
        /\ cycle.processed = {} => state = <<>>
        /\ last.outcome # "none" => AsNew(last)

\* C13: no step of a job takes a path out of the state, a job that loads the
\* state file starts with every path the file holds, and a job that saves
\* leaves in the file every path it held; the step that deletes a local
\* file changes neither the state file nor a page, and a job calls
\* _sync_file, hence the remote store, for no file that is not in the vault
C13_RecordsAreKept ==
    [][/\ (phase = "syncing" /\ phase' = "syncing")
             => \A p \in DOMAIN state : p \in DOMAIN state' /\ state'[p].page_id # 0
       /\ (phase = "idle" /\ phase' = "syncing" /\ stateFile.kind = "ok")
             => state' = stateFile.data
       /\ (stateFile.kind = "ok" /\ stateFile'.kind = "ok")
             => DOMAIN stateFile.data \subseteq DOMAIN stateFile'.data
       /\ (\E p \in Paths : files[p].exists /\ ~files'[p].exists)
             => (stateFile' = stateFile /\ state' = state /\ pages' = pages)
       /\ (phase' = "syncing" /\ last'.outcome # "none")
             => (files'[last'.path].exists /\ last'.path \in cycle'.discovered)
       /\ (phase' = "syncing" /\ cycle'.discovered = {})
             => (~cycle'.called /\ pages' = pages)]_vars

\* a job that issued remote calls has ended on a vault from which a file
\* with a record was deleted; the record is in the state to save
C13_Witness ==
    /\ phase = "syncing" /\ todo = {} /\ cycle.called
    /\ \E p \in Paths : ~files[p].exists /\ HasRecord(state, p) /\ state[p].page_id # 0

\* the kinds of the lines of a body made of lines of LineKinds
KindsOf(body) ==
    LET lines == Split(body, "\n")
    IN  [i \in 1..Len(lines) |-> CHOOSE k \in LineKinds : k.text = lines[i]]

IsLineBody(body) ==
    \A i \in 1..Len(Split(body, "\n")) : \E k \in LineKinds : k.text = Split(body, "\n")[i]

\* the type, content and to_do flag of the blocks a body is to give, line
\* kind after line kind: none for a blank line, one for every other line
\* outside a fence, and one code block for a fence, which runs from its
\* opening line to the next fence line or the end of the body and holds the
\* lines in between as they are
RECURSIVE Expected(_)
Expected(kinds) ==
    IF kinds = <<>> THEN <<>>
    ELSE IF kinds[1].type = "blank" THEN Expected(Tail(kinds))
    ELSE IF kinds[1].type = "fence"
    THEN LET rest   == Tail(kinds)
             closes == {j \in 1..Len(rest) : rest[j].type = "fence"}
             n      == IF closes = {} THEN Len(rest) ELSE Min(closes) - 1
             code   == Join([j \in 1..n |-> rest[j].text], <<"\n">>)
         IN  <<[type |-> "code", content |-> code, checked |-> FALSE]>>
               \o Expected(SubSeq(rest, n + 2, Len(rest)))
    ELSE <<[type |-> kinds[1].type, content |-> kinds[1].content,
            checked |-> kinds[1].checked]>> \o Expected(Tail(kinds))

\* C14: the blocks converted from a body are, in the order of the lines, one
\* block for each non-blank line outside a code fence, none for a blank
\* line, and one code block for each fence, whose content is its content
\* lines verbatim, none of them taken for a heading, list item, quote or image
C14_OneBlockPerLine ==
    (last.outcome = "converted" /\ IsLineBody(files[last.path].content)) =>
        [k \in 1..Len(last.blocks) |->
            [type |-> last.blocks[k].type, content |-> last.blocks[k].content,
             checked |-> last.blocks[k].checked]]
          = Expected(KindsOf(files[last.path].content))

\* a fence that holds a heading line gave one code block, and the list item
\* after its closing line the block that follows
C14_Witness ==
    /\ last.outcome = "converted"
    /\ Len(Split(files[last.path].content, "\n")) = 4
    /\ Len(last.blocks) = 2
    /\ last.blocks[1].type = "code"
    /\ last.blocks[1].content = <<"#", " ", "a">>
    /\ last.blocks[2].type = "bulleted_list_item"

\* a text content cut as a block is to carry it
Cut(text) ==
    IF Len(text) <= 2000 THEN text ELSE SubSeq(text, 1, 1997) \o <<".", ".", ".">>

\* C15: the rich-text content of every block the converter emits, and the
\* content of every code block, has at most 2000 characters; a content of
\* more than 2000 characters is cut to its first 1997 followed by "..."
C15_ContentIsCut ==
    last.outcome = "converted" =>
        /\ \A k \in 1..Len(last.blocks) :
              last.blocks[k].type # "image" => Len(last.blocks[k].content) <= 2000
        /\ \A c \in LongCases :
              files[last.path].content = c.body =>
                  /\ Len(last.blocks) = 1
                  /\ last.blocks[1].type = c.type
                  /\ last.blocks[1].checked = c.checked
                  /\ last.blocks[1].content = Cut(c.uncut)

\* a fence whose two content lines make 2040 characters gave a code block
\* of 2000 characters that ends with the dots
C15_Witness ==
    /\ last.outcome = "converted"
    /\ Len(files[last.path].content) > 2040
    /\ Len(last.blocks) = 1
    /\ last.blocks[1].type = "code"
    /\ Len(last.blocks[1].content) = 2000
    /\ SubSeq(last.blocks[1].content, 1, 4) = <<"#", " ", "\n", "a">>
    /\ SubSeq(last.blocks[1].content, 1997, 2000) = <<"a", ".", ".", ".">>

IsPropertyDocument(content) == \E c \in PropertyCases : PropertyDocuments[c] = content

\* the case a document of PropertyDocuments was made from
CaseOf(content) == CHOOSE c \in PropertyCases : PropertyDocuments[c] = content

\* the key is in the frontmatter and has a value
Present(v) == v.given /\ ~v.null

\* C16: the Date property is the value of the date key, stringified,
\* whenever the frontmatter has one, whatever the value; that of the created
\* key only without a date value, and the file modification time only
\* without both
C16_DateWins ==
    (last.outcome = "built" /\ IsPropertyDocument(files[last.path].content)) =>
        last.properties.Date =
            (LET c == CaseOf(files[last.path].content)
             IN  IF Present(c.date) THEN c.date.str
                 ELSE IF Present(c.created) THEN c.created.str
                 ELSE IsoFormat(files[last.path].mtime))

C20_NoTextLost ==
    last.outcome = "extracted" =>
        \A c \in ExtractCases :
            files[last.path].content = c.content =>
                IF c.delimited /\ c.loads THEN last.body = c.rest
                ELSE last.frontmatter = EmptyMap /\ last.body = c.content

\* C19: _create_image_block returns an image block, with the exact target
\* as URL, for a standard reference whose target is an absolute network
\* address, and for no other line: for an embed and for a standard
\* reference with a local or relative target it returns None, and the
\* converter emits a paragraph for the line
C19_ImageOnlyForNetworkTarget ==
    \A c \in ImageCases :
        (last.outcome \in {"resolved", "converted"} /\ files[last.path].content = c.line) =>
            /\ Len(last.blocks) = 1
            /\ IF c.standard /\ c.absolute
               THEN last.blocks[1].type = "image" /\ last.blocks[1].content = c.target
               ELSE IF last.outcome = "resolved" THEN last.blocks[1] = NoBlock
               ELSE last.blocks[1].type = "paragraph"

\* C18: the text rendered is one plain-text run: the text with every embed
\* ![[target]] replaced by [Image: target] and every link [[target]] or
\* [[target|alias]] by the alias if it has one, else by the target; no part
\* of an embed is taken for a link
C18_EmbedsThenLinks ==
    last.outcome = "rendered" =>
        /\ Len(last.blocks) = 1
        /\ last.blocks[1].type = "text"
        /\ \A c \in RenderCases :
              files[last.path].content = c.text => last.blocks[1].content = c.rendered

\* an embed with a size, a space and a link with an alias were rendered
C18_Witness ==
    /\ last.outcome = "rendered"
    /\ files[last.path].content
          = <<"!", "[", "[", "i", "|", "4", "0", "]", "]", " ", "[", "[", "p", "|", "q", "]", "]">>
    /\ last.blocks[1].content
          = <<"[", "I", "m", "a", "g", "e", ":", " ", "i", "|", "4", "0", "]", " ", "q">>

\* the number of processed documents whose outcome is one of a set
Took(outcomes, which) == Cardinality({p \in DOMAIN outcomes : outcomes[p] \in which})

\* the report of a job: how many documents it processed and how many it
\* created, updated, skipped and failed on
Report(outcomes) ==
    [processed |-> Cardinality(DOMAIN outcomes),
     created |-> Took(outcomes, {"created"}),
     updated |-> Took(outcomes, {"updated"}),
     skipped |-> Took(outcomes, {"skipped"}),
     failed |-> Took(outcomes, {"failed", "raised", "unreadable"})]

\* C21: sync returns to its harness the report of the job: the numbers of
\* documents it processed, created, updated, skipped and failed on are those
\* of the documents that took each outcome in that job
C21_SyncReturnsCounts ==
    [][phase = "syncing" /\ phase' = "idle" => cycle'.returned = Report(cycle.outcomes)]_vars

\* whether the calls of one update_page on a page that had children, made
\* for blocks, came in order: the property update first and only once, the
\* listing and the deletions next, the appends last and batch after batch;
\* every child deleted before the first append; nothing after a property
\* update that failed
InOrder(log, children, blocks, failed) ==
    /\ log # <<>>
    /\ log[1].op = "pages.update"
    /\ \A i \in 2..Len(log) :
          log[i].op \in {"blocks.children.list", "blocks.delete", "blocks.children.append"}
    /\ \A i \in 1..Len(log), j \in 1..Len(log) :
          (i < j /\ log[i].op = "blocks.children.append")
             => log[j].op = "blocks.children.append"
    /\ Appends(log) # <<>> =>
          \A c \in 1..Len(children) :
             \E i \in 1..Len(log) :
                log[i].op = "blocks.delete" /\ log[i].block_id = children[c].id
    /\ \A k \in 1..Len(Appends(log)) :
          Appends(log)[k].blocks
             = SubSeq(blocks, (k - 1) * BatchSize + 1, Min({k * BatchSize, Len(blocks)}))
    /\ failed = 1 => Len(log) = 1

\* C22: within one page update the property update comes first, then every
\* child deletion, then the appends in batch order; no deletion follows the
\* first append, and when the property update fails no child is deleted and
\* none appended
C22_CallsInOrder ==
    [][last' # last => InOrder(last'.log, pages[1].children, last'.blocks, last'.failed)]_vars

\* an update that deleted more children than one batch holds and appended
\* two batches
C22_Witness ==
    /\ last.outcome = "updated"
    /\ last.log[1].op = "pages.update"
    /\ Count(last.log, "blocks.delete") = BatchSize + 1
    /\ Len(Appends(last.log)) = 2

\* what is left for the scanner to do: the lines not yet passed, the inner
\* loop to leave and the blocks to return
Measure(scan) ==
    2 * (Len(LinesOf(scan.path)) + 1 - scan.i)
      + (IF scan.in_code THEN 1 ELSE 0) + (IF scan.outcome = "scanning" THEN 1 ELSE 0)

\* the indexes of the fence lines of a body of lines of LineKinds
FenceLines(body) == {j \in 1..Len(KindsOf(body)) : KindsOf(body)[j].type = "fence"}

\* the end of the body is inside a code fence: fence lines open and close
\* fences in turn, so the last of an odd number of them opens one that
\* nothing closes
EndsInFence(body) == Cardinality(FenceLines(body)) % 2 = 1

\* C23: the line scanner terminates on every body: the blocks are returned
\* in the end, each iteration of either loop leaving less to do, and no
\* error is reported; when the body ends inside a code fence the last block returned is
\* the one code block of that fence, and its content is all the lines after
\* the opening fence line. What the scanner returns step by step is what
\* _parse_body_to_blocks returns
C23_ScannerTerminates ==
    /\ <>(last.outcome = "scanned")
    /\ [][Measure(last') < Measure(last)]_vars
    /\ [](Measure(last) >= 0 /\ last.outcome \in {"scanning", "scanned"})
    /\ [](last.outcome = "scanned" =>
            /\ last.blocks = _parse_body_to_blocks(files[last.path].content)
            /\ EndsInFence(files[last.path].content) =>
                 LET lines  == LinesOf(last.path)
                     opener == Max(FenceLines(files[last.path].content))
                     codes  == {k \in 1..Len(last.blocks) : last.blocks[k].type = "code"}
                 IN  /\ last.blocks # <<>>
                     /\ last.blocks[Len(last.blocks)].type = "code"
                     /\ last.blocks[Len(last.blocks)].content
                           = Join(SubSeq(lines, opener + 1, Len(lines)), <<"\n">>)
                     /\ 2 * Cardinality(codes)
                           = Cardinality(FenceLines(files[last.path].content)) + 1)

\* a body of four lines scanned to its end: a heading, an opening fence line
\* and two lines that the one code block holds as they are
C23_Witness ==
    /\ last.outcome = "scanned"
    /\ Len(LinesOf(last.path)) = 4
    /\ EndsInFence(files[last.path].content)
    /\ Len(last.blocks) = 2
    /\ last.blocks[1].type = "heading_1"
    /\ last.blocks[2].type = "code"
    /\ last.blocks[2].content = <<"-", " ", "b", "\n", "c">>

\* C24: a line that starts with three or more backquotes or three or more
\* tildes opens a code block that only a line starting with the same marker
\* closes; the language of the block is the first word after the marker on
\* the opening line, and "plain text" when there is none
C24_FencesAndLanguage ==
    last.outcome = "converted" =>
        \A c \in FenceCases :
            files[last.path].content = c.body =>
                last.blocks = <<Block("code", c.content, FALSE, c.language)>>

\* C25: the scanner handles a line as an image line only when the whole
\* trimmed line is an embed or a standard image reference; a line that has
\* other text besides the reference gives a paragraph that carries the full
\* line, so that no text of the line is dropped
C25_ImageLineIsWholeLine ==
    last.outcome = "converted" =>
        \A c \in MixedImageCases :
            files[last.path].content = c.line =>
                last.blocks = <<Block(IF c.whole THEN "image" ELSE "paragraph", c.content,
                                      FALSE, <<>>)>>

\* C26: the frontmatter _extract_frontmatter returns is a mapping, maybe
\* empty, whatever the delimited prologue loads as (a mapping, nothing, a
\* bare scalar, a list), so that _build_properties never raises on it
C26_FrontmatterIsMapping ==
    /\ last.outcome = "extracted" => last.frontmatter.kind = "map"
    /\ last.outcome = "built" => ~last.properties.raised

\* C27: the record _sync_file writes after a successful create or update
\* carries, as its timestamp, the time at which the sync of the document
\* happened, so the timestamp of the record of a document advances with
\* every successful sync of it made at a later time than the one before
C27_TimestampIsNow ==
    [][last' # last /\ last'.outcome \in {"created", "updated"} =>
          /\ RecordOf(state', last'.path).mtime = clock'
          /\ HasRecord(state, last'.path) /\ last'.before.mtime < clock' =>
                 RecordOf(state', last'.path).mtime > last'.before.mtime]_vars

=============================================================================
